---- MODULE Spec2Model ----
(***************************************************************************)
(* A model of the nekomimi logging library: log levels, the header         *)
(* formatter, the handler chain (LogHandlerFunc, TinyLogHandlerFunc, the   *)
(* native handler), loggers, derived loggers and trace loggers.            *)
(*                                                                         *)
(* Handler operations are modelled in small steps (lock, format, delegate, *)
(* own action, unlock, finalizer) on a per-thread call stack, so that      *)
(* ordering and locking can be observed between threads.  Every observable *)
(* effect of a user-supplied function (Converter, RegularLogFunc,          *)
(* PanicLogFunc, FatalLogFunc, a finalizer, a TinyLogHandlerFunc) is       *)
(* appended to the log `events`.                                           *)
(***************************************************************************)
EXTENDS Integers, Sequences, FiniteSets, TLC

VARIABLES
    handlers,      \* heap of LogHandler values: handler id -> record
    lockHeld,      \* sync.Locker id -> TRUE while locked
    loggers,       \* the logger structs allocated so far, in order
    traces,        \* the traceLogger structs allocated so far, in order
    nextUUID,      \* state of the uuid.NewV7 generator
    threads,       \* thread id -> [pc, call, stack, lazy]
    events,        \* observable effects, in the order they happened
    sysTerminate,  \* the replaceable termination function
    exited,        \* "no", or why the process has stopped
    file           \* the state of one file sink (NewFileAccessorLogHandler)

vars == <<handlers, lockHeld, loggers, traces, nextUUID, threads, events,
          sysTerminate, exited, file>>

-----------------------------------------------------------------------------
(* Bounds of the model *)

NumThreads == 2
MaxLoggers == 2
MaxTraces == 1

Threads == 1..NumThreads

-----------------------------------------------------------------------------
(* LogLevel *)

DEBUG == 0
INFO == 1
WARN == 2
ERROR == 3
PANIC == 4
FATAL == 5

UserLevels == {DEBUG, INFO, WARN, ERROR}
Levels == {DEBUG, INFO, WARN, ERROR, PANIC, FATAL}

LevelString(l) ==
    CASE l = DEBUG -> "DEBUG"
      [] l = INFO -> "INFO"
      [] l = WARN -> "WARN"
      [] l = ERROR -> "ERROR"
      [] l = PANIC -> "PANIC"
      [] l = FATAL -> "FATAL"
      [] OTHER -> "UNKNOWN"

-----------------------------------------------------------------------------
(* Strings *)

RECURSIVE JoinSp(_)
JoinSp(parts) ==
    IF Len(parts) = 0 THEN ""
    ELSE IF Len(parts) = 1 THEN parts[1]
    ELSE parts[1] \o " " \o JoinSp(Tail(parts))

\* fmt.Sprintln: the operands separated by spaces, then a newline
Sprintln(message) == JoinSp(message) \o "\n"

-----------------------------------------------------------------------------
(* traceID and the header formatter *)

NoTid == [name |-> "", id |-> ""]
NilUUID == "00000000"

\* (*traceID).String; a nil *traceID is modelled by NoTid
TidString(tid) ==
    IF tid = NoTid THEN ""
    ELSE IF tid.name # "" THEN "<" \o tid.name \o ":" \o tid.id \o ">"
    ELSE "<" \o tid.id \o ">"

DefaultTimeFormat == "2006-01-02 15:04:05.000"

\* time.Now().Format(layout) at the one instant the model looks at
TimeNowFormat(layout) ==
    CASE layout = DefaultTimeFormat -> "2026-11-04 12:30:00.000"
      [] layout = "15:04:05.000" -> "12:30:00.000"
      [] layout = "15:04" -> "12:30"
      [] OTHER -> layout

\* formatStack: the dump of the call stack
StackDump == " >> Stacks:\n    main.go:1(main)\n<<<<"
\* getStackHeader: file, line and function of the caller
CallSite == " main.go:1(main)"

\* The closure getHeaderFromatter returns is the record of what it captures.
getHeaderFromatter(timefmt, prefix, levelcalltrace) ==
    [timefmt |-> timefmt, prefix |-> prefix, levelcalltrace |-> levelcalltrace]

\* A call of that closure: the header, field by field, in print order.
\* a formatter whose threshold is exclusive and also gates the stack dump
FmtHeaderAboveThreshold(f, level, tid) ==
    LET calltrace == level > f.levelcalltrace
        stackInfo == IF ~calltrace THEN ""
                     ELSE IF level >= PANIC THEN StackDump
                     ELSE CallSite
    IN  [time |-> TimeNowFormat(f.timefmt),
         level |-> LevelString(level),
         prefix |-> f.prefix,
         trace |-> TidString(tid),
         stack |-> stackInfo]

FmtHeader(f, level, tid) ==
    LET calltrace == level >= f.levelcalltrace
        stackInfo == IF level >= PANIC THEN StackDump
                     ELSE IF calltrace THEN CallSite
                     ELSE ""
    IN  [time |-> TimeNowFormat(f.timefmt),
         level |-> LevelString(level),
         prefix |-> f.prefix,
         trace |-> TidString(tid),
         stack |-> stackInfo]

NoHeader == [time |-> "", level |-> "", prefix |-> "", trace |-> "",
             stack |-> ""]

\* fmt.Sprintf("%s [%s], %s%s%s - ", ...)
RenderHeader(hd) ==
    hd.time \o " [" \o hd.level \o "], " \o hd.prefix \o hd.trace
        \o hd.stack \o " - "

-----------------------------------------------------------------------------
(* LogHandler values *)

NoHandler == 0      \* a nil LogHandler
NoLock == 0         \* a nil sync.Locker
NativeId == 1       \* the heap cell of NativeLogHandler

\* A *LogHandlerFunc.  The function-valued fields say what the function is:
\* Converter/RegularLogFunc TRUE when set; PanicLogFunc/FatalLogFunc are
\* "absent" (nil), "retnil" (returns a nil finalizer), "retfin" (returns a
\* finalizer of the user) or "native" (the functions NewNativeLogHandler sets).
LogHandlerFunc(lock, conv, reg, pnc, ftl, wrapper) ==
    [kind |-> "func", Lock |-> lock, Converter |-> conv,
     RegularLogFunc |-> reg, PanicLogFunc |-> pnc, FatalLogFunc |-> ftl,
     Wrapper |-> wrapper]

\* A TinyLogHandlerFunc: one function, no fields.
TinyLogHandlerFunc ==
    [kind |-> "tiny", Lock |-> NoLock, Converter |-> FALSE,
     RegularLogFunc |-> TRUE, PanicLogFunc |-> "absent",
     FatalLogFunc |-> "absent", Wrapper |-> NoHandler]

NewNativeLogHandler(lock, warp) ==
    LogHandlerFunc(lock, FALSE, TRUE, "native", "native", warp)

NoPnt == [header |-> NoHeader, sp |-> "", by |-> NoHandler]

\* rawWriteLogFunc: the writer that emits the header, then the body.
\* `by` is the handler whose method built the writer.
rawWriteLogFunc(h, header, message) ==
    [header |-> header, sp |-> Sprintln(message), by |-> h]

\* what a writer writes to the io.StringWriter it is given
Written(pnt) == RenderHeader(pnt.header) \o pnt.sp

-----------------------------------------------------------------------------
(* Threads, frames and events *)

\* What a thread's current (or last) call was and what it has done so far:
\* the receiver (target, id), the method family (api) and style, the level,
\* whether the threshold test passed, the message, the header it built, the
\* handler and handler method it dispatched to, and what it returned.
NoCall == [target |-> "none", id |-> 0, api |-> "none", style |-> "none",
           level |-> 0, enabled |-> FALSE, message |-> <<>>,
           header |-> NoHeader, h |-> NoHandler, op |-> "none",
           ret |-> "none"]
\* the callable a lazy method returned, when the thread holds one
NoLazy == [target |-> "none", id |-> 0, level |-> 0]

\* the setter a thread is in: its receiver, its argument, and the formatter
\* it has built but not stored yet
NoSet == [logger |-> 0, api |-> "none", level |-> DEBUG, format |-> "",
          handler |-> NoHandler, wrapper |-> "", old |-> NoHandler,
          built |-> [timefmt |-> "", prefix |-> "", levelcalltrace |-> DEBUG]]

IdleThread == [pc |-> "idle", call |-> NoCall, stack |-> <<>>,
               lazy |-> NoLazy, set |-> NoSet]

Frame(h, op, level, header, message, pnt) ==
    [h |-> h, op |-> op, pc |-> "enter", level |-> level, header |-> header,
     message |-> message, pnt |-> pnt, fin |-> "nil"]

\* the io.StringWriter an action of NativeLogHandler hands to the writer:
\* os.Stdout in RegularLogFunc, os.Stderr in PanicLogFunc and FatalLogFunc
NativeStream(h, kind) ==
    IF h # NativeId THEN ""
    ELSE CASE kind = "regular" -> "os.Stdout"
           [] kind \in {"panic", "fatal"} -> "os.Stderr"
           [] OTHER -> ""

Event(t, h, kind, level, pnt, info) ==
    [t |-> t, h |-> h, kind |-> kind, level |-> level, pnt |-> pnt,
     info |-> info, out |-> NativeStream(h, kind)]

Top(t) == threads[t].stack[Len(threads[t].stack)]
Depth(t) == Len(threads[t].stack)
Running(t) == exited = "no" /\ threads[t].pc = "handler" /\ Depth(t) > 0

SetTop(t, f) ==
    [threads EXCEPT ![t].stack = [@ EXCEPT ![Len(@)] = f]]

\* the frame on top returns to its caller
Pop(t) ==
    LET st == SubSeq(threads[t].stack, 1, Depth(t) - 1)
    IN  [threads EXCEPT ![t].stack = st,
                        ![t].pc = IF st = <<>> THEN "idle" ELSE @]

\* the events of the other threads: a thread's own record starts afresh with
\* each call it makes
OthersEvents(t) == SelectSeq(events, LAMBDA e : e.t # t)

-----------------------------------------------------------------------------
(* The methods of *LogHandlerFunc and of TinyLogHandlerFunc, step by step *)

\* a method that runs its own action before it delegates
NextPcSelfFirst(op, pc) ==
    CASE pc = "enter" -> IF op = "RegularWriter" THEN "self" ELSE "format"
      [] pc = "format" -> "self"
      [] pc = "self" -> "delegate"
      [] pc = "delegate" -> "unlock"
      [] pc = "unlock" -> IF op \in {"PanicLog", "FatalLog"} THEN "fin"
                          ELSE "return"
      [] OTHER -> "return"

\* The statements of a method of *LogHandlerFunc, in program order.
NextPc(op, pc) ==
    CASE pc = "enter" -> IF op = "RegularWriter" THEN "delegate" ELSE "format"
      [] pc = "format" -> "delegate"
      [] pc = "delegate" -> "self"
      [] pc = "self" -> "unlock"
      [] pc = "unlock" -> IF op \in {"PanicLog", "FatalLog"} THEN "fin"
                          ELSE "return"
      [] OTHER -> "return"

\* a RegularWriter that hands PANIC and FATAL on to its Wrapper as ERROR
DelegateLevelOneRemap(op, level) ==
    CASE op = "PanicLog" -> PANIC
      [] op = "FatalLog" -> FATAL
      [] OTHER -> IF level >= PANIC THEN ERROR ELSE level

\* The level a method hands to its Wrapper's RegularWriter.
DelegateLevel(op, level) ==
    CASE op = "PanicLog" -> PANIC
      [] op = "FatalLog" -> FATAL
      [] OTHER -> level

\* methods of TinyLogHandlerFunc that hand PANIC and FATAL on as ERROR
TinyLevelCapped(op, level) ==
    CASE op \in {"PanicLog", "FatalLog"} -> ERROR
      [] OTHER -> level

\* The level a method of TinyLogHandlerFunc hands to the function.
TinyLevel(op, level) ==
    CASE op = "PanicLog" -> PANIC
      [] op = "FatalLog" -> FATAL
      [] OTHER -> level

\* The finalizer a PanicLogFunc / FatalLogFunc of the given sort returns.
PanicFin(pnc) ==
    CASE pnc = "native" -> "panic"
      [] pnc = "retfin" -> "user"
      [] OTHER -> "nil"

\* a native FatalLogFunc that returns the os.Exit closure sysTerminate held
\* when the handler was made
FatalFinAsConstructed(ftl) ==
    CASE ftl = "native" -> "exit"
      [] ftl = "retfin" -> "user"
      [] OTHER -> "nil"

FatalFin(ftl) ==
    CASE ftl = "native" -> sysTerminate
      [] ftl = "retfin" -> "user"
      [] OTHER -> "nil"

\* a method that goes on without waiting for the Lock
EnterWithoutWaiting(t) ==
    /\ Running(t)
    /\ LET f == Top(t)
           hr == handlers[f.h]
       IN  /\ hr.kind = "func"
           /\ f.pc = "enter"
           /\ lockHeld' = IF hr.Lock # NoLock
                          THEN [lockHeld EXCEPT ![hr.Lock] = TRUE]
                          ELSE lockHeld
           /\ threads' = SetTop(t, [f EXCEPT !.pc = NextPc(f.op, "enter")])
    /\ UNCHANGED <<file, handlers, loggers, traces, nextUUID, events, sysTerminate,
                   exited>>

\* if lh.Lock != nil { lh.Lock.Lock(); defer lh.Lock.Unlock() }
Enter(t) ==
    /\ Running(t)
    /\ LET f == Top(t)
           hr == handlers[f.h]
       IN  /\ hr.kind = "func"
           /\ f.pc = "enter"
           /\ hr.Lock # NoLock => ~lockHeld[hr.Lock]
           /\ lockHeld' = IF hr.Lock # NoLock
                          THEN [lockHeld EXCEPT ![hr.Lock] = TRUE]
                          ELSE lockHeld
           /\ threads' = SetTop(t, [f EXCEPT !.pc = NextPc(f.op, "enter")])
    /\ UNCHANGED <<file, handlers, loggers, traces, nextUUID, events, sysTerminate,
                   exited>>

\* pnt := lh.writeLogFunc(header, message...): through the Converter when
\* there is one (it is handed rawWriteLogFunc and returns what that gives)
Format(t) ==
    /\ Running(t)
    /\ LET f == Top(t)
           hr == handlers[f.h]
           pnt == rawWriteLogFunc(f.h, f.header, f.message)
       IN  /\ hr.kind = "func"
           /\ f.pc = "format"
           /\ events' = IF hr.Converter
                        THEN Append(events,
                                    Event(t, f.h, "conv", f.level, pnt, ""))
                        ELSE events
           /\ threads' = SetTop(t, [f EXCEPT !.pnt = pnt,
                                             !.pc = NextPc(f.op, "format")])
    /\ UNCHANGED <<file, handlers, lockHeld, loggers, traces, nextUUID,
                   sysTerminate, exited>>

\* PanicLog and FatalLog that pass themselves on to the Wrapper
DelegateSameMethod(t) ==
    /\ Running(t)
    /\ LET f == Top(t)
           hr == handlers[f.h]
           g == [f EXCEPT !.pc = NextPc(f.op, "delegate")]
           callee == IF f.op \in {"PanicLog", "FatalLog"}
                     THEN Frame(hr.Wrapper, f.op, f.level, f.header,
                                f.message, NoPnt)
                     ELSE Frame(hr.Wrapper, "RegularWriter", f.level,
                                NoHeader, <<>>, f.pnt)
       IN  /\ hr.kind = "func"
           /\ f.pc = "delegate"
           /\ threads' = IF hr.Wrapper # NoHandler
                         THEN [threads EXCEPT ![t].stack =
                                  Append([@ EXCEPT ![Len(@)] = g], callee)]
                         ELSE SetTop(t, g)
    /\ UNCHANGED <<file, handlers, lockHeld, loggers, traces, nextUUID, events,
                   sysTerminate, exited>>

\* a method that hands header and message to RegularLog of its Wrapper, which
\* formats them again
DelegateThroughRegularLog(t) ==
    /\ Running(t)
    /\ LET f == Top(t)
           hr == handlers[f.h]
           g == [f EXCEPT !.pc = NextPc(f.op, "delegate")]
           callee == IF f.op = "RegularWriter"
                     THEN Frame(hr.Wrapper, "RegularWriter", f.level,
                                NoHeader, <<>>, f.pnt)
                     ELSE Frame(hr.Wrapper, "RegularLog",
                                DelegateLevel(f.op, f.level), f.header,
                                f.message, NoPnt)
       IN  /\ hr.kind = "func"
           /\ f.pc = "delegate"
           /\ threads' = IF hr.Wrapper # NoHandler
                         THEN [threads EXCEPT ![t].stack =
                                  Append([@ EXCEPT ![Len(@)] = g], callee)]
                         ELSE SetTop(t, g)
    /\ UNCHANGED <<file, handlers, lockHeld, loggers, traces, nextUUID, events,
                   sysTerminate, exited>>

\* a method that forgets its Wrapper
DelegateSkipsWrapper(t) ==
    /\ Running(t)
    /\ LET f == Top(t)
       IN  /\ handlers[f.h].kind = "func"
           /\ f.pc = "delegate"
           /\ threads' = SetTop(t, [f EXCEPT !.pc = NextPc(f.op, "delegate")])
    /\ UNCHANGED <<file, handlers, lockHeld, loggers, traces, nextUUID, events,
                   sysTerminate, exited>>

\* if lh.Wrapper != nil { lh.Wrapper.RegularWriter(level, pnt) }
Delegate(t) ==
    /\ Running(t)
    /\ LET f == Top(t)
           hr == handlers[f.h]
           g == [f EXCEPT !.pc = NextPc(f.op, "delegate")]
           callee == Frame(hr.Wrapper, "RegularWriter",
                           DelegateLevel(f.op, f.level), NoHeader, <<>>, f.pnt)
       IN  /\ hr.kind = "func"
           /\ f.pc = "delegate"
           /\ threads' = IF hr.Wrapper # NoHandler
                         THEN [threads EXCEPT ![t].stack =
                                  Append([@ EXCEPT ![Len(@)] = g], callee)]
                         ELSE SetTop(t, g)
    /\ UNCHANGED <<file, handlers, lockHeld, loggers, traces, nextUUID, events,
                   sysTerminate, exited>>

\* the own action of the method is a function of the user that panics
ActionPanics(op, hr) ==
    \/ op = "PanicLog" /\ hr.PanicLogFunc = "panics"
    \/ op = "FatalLog" /\ hr.FatalLogFunc = "panics"

\* methods that unlock before they return and not by defer: a panic leaves
\* their locks held
LocksKeptAfterPanic(t, holders) == lockHeld

\* a panic leaves every method on the thread's stack: the deferred
\* lh.Lock.Unlock() of each method that took its lock runs, nothing else
LocksAfterPanic(t, holders) ==
    [k \in DOMAIN lockHeld |->
        IF \E h \in holders : handlers[h].Lock = k THEN FALSE
        ELSE lockHeld[k]]

\* a PanicLogFunc or FatalLogFunc of the user panics
SelfPanics(t) ==
    /\ Running(t)
    /\ LET f == Top(t)
           hr == handlers[f.h]
       IN  /\ hr.kind = "func"
           /\ f.pc = "self"
           /\ ActionPanics(f.op, hr)
           /\ events' = Append(events,
                    Event(t, f.h, "failed", f.level, f.pnt, ""))
           /\ lockHeld' = LocksAfterPanic(t,
                    {threads[t].stack[k].h : k \in 1..Depth(t)})
           /\ threads' = [threads EXCEPT ![t].pc = "panicked",
                                         ![t].stack = <<>>]
    /\ UNCHANGED <<file, handlers, loggers, traces, nextUUID, sysTerminate,
                   exited>>

\* the handler's own action: RegularLogFunc, PanicLogFunc or FatalLogFunc
Self(t) ==
    /\ Running(t)
    /\ LET f == Top(t)
           hr == handlers[f.h]
           g == [f EXCEPT !.pc = NextPc(f.op, "self")]
       IN  /\ hr.kind = "func"
           /\ f.pc = "self"
           /\ ~ActionPanics(f.op, hr)
           /\ CASE f.op = "PanicLog" ->
                    IF hr.PanicLogFunc # "absent"
                    THEN /\ events' = Append(events,
                                Event(t, f.h, "panic", PANIC, f.pnt,
                                      Sprintln(f.message)))
                         /\ threads' = SetTop(t,
                                [g EXCEPT !.fin = PanicFin(hr.PanicLogFunc)])
                    ELSE /\ events' = events
                         /\ threads' = SetTop(t, g)
                [] f.op = "FatalLog" ->
                    IF hr.FatalLogFunc # "absent"
                    THEN /\ events' = Append(events,
                                Event(t, f.h, "fatal", FATAL, f.pnt, ""))
                         /\ threads' = SetTop(t,
                                [g EXCEPT !.fin = FatalFin(hr.FatalLogFunc)])
                    ELSE /\ events' = events
                         /\ threads' = SetTop(t, g)
                [] OTHER ->
                    /\ events' = IF hr.RegularLogFunc
                                 THEN Append(events,
                                        Event(t, f.h, "regular", f.level,
                                              f.pnt, ""))
                                 ELSE events
                    /\ threads' = SetTop(t, g)
    /\ UNCHANGED <<file, handlers, lockHeld, loggers, traces, nextUUID,
                   sysTerminate, exited>>

\* PanicLog and FatalLog that drop the finalizer
UnlockDropsFin(t) ==
    /\ Running(t)
    /\ LET f == Top(t)
           hr == handlers[f.h]
       IN  /\ hr.kind = "func"
           /\ f.pc = "unlock"
           /\ lockHeld' = IF hr.Lock # NoLock
                          THEN [lockHeld EXCEPT ![hr.Lock] = FALSE]
                          ELSE lockHeld
           /\ threads' = Pop(t)
    /\ UNCHANGED <<file, handlers, loggers, traces, nextUUID, events, sysTerminate,
                   exited>>

\* the deferred lh.Lock.Unlock(); RegularWriter and RegularLog return here
Unlock(t) ==
    /\ Running(t)
    /\ LET f == Top(t)
           hr == handlers[f.h]
       IN  /\ hr.kind = "func"
           /\ f.pc = "unlock"
           /\ lockHeld' = IF hr.Lock # NoLock
                          THEN [lockHeld EXCEPT ![hr.Lock] = FALSE]
                          ELSE lockHeld
           /\ threads' = IF NextPc(f.op, "unlock") = "return"
                         THEN Pop(t)
                         ELSE SetTop(t, [f EXCEPT !.pc = NextPc(f.op, "unlock")])
    /\ UNCHANGED <<file, handlers, loggers, traces, nextUUID, events, sysTerminate,
                   exited>>

\* if fin != nil { fin() }: a finalizer of the user returns; the native panic
\* finalizer is panic(info); the native fatal finalizer is the sysTerminate
\* that FatalLogFunc read, os.Exit(1) unless it was replaced
Finalize(t) ==
    /\ Running(t)
    /\ LET f == Top(t)
           hr == handlers[f.h]
           ev(kind) == Append(events, Event(t, f.h, kind, f.level, NoPnt,
                                            Sprintln(f.message)))
       IN  /\ hr.kind = "func"
           /\ f.pc = "fin"
           /\ CASE f.fin = "nil" ->
                    /\ threads' = Pop(t)
                    /\ UNCHANGED <<events, exited>>
                [] f.fin = "user" ->
                    /\ events' = ev("fin")
                    /\ threads' = Pop(t)
                    /\ UNCHANGED exited
                [] f.fin = "panic" ->
                    /\ events' = ev("raise")
                    /\ threads' = [threads EXCEPT ![t].pc = "panicked",
                                                  ![t].stack = <<>>]
                    /\ UNCHANGED exited
                [] f.fin = "hook" ->
                    /\ events' = ev("terminate")
                    /\ threads' = Pop(t)
                    /\ UNCHANGED exited
                [] f.fin = "exit" ->
                    /\ events' = ev("exit")
                    /\ exited' = "exit"
                    /\ UNCHANGED threads
    /\ UNCHANGED <<file, handlers, lockHeld, loggers, traces, nextUUID,
                   sysTerminate>>

\* Every method of TinyLogHandlerFunc is one call of the function: with the
\* writer it was given (RegularWriter) or the one writeLogFunc builds.
Tiny(t) ==
    /\ Running(t)
    /\ LET f == Top(t)
           hr == handlers[f.h]
           pnt == IF f.op = "RegularWriter" THEN f.pnt
                  ELSE rawWriteLogFunc(f.h, f.header, f.message)
       IN  /\ hr.kind = "tiny"
           /\ events' = Append(events,
                    Event(t, f.h, "tiny", TinyLevel(f.op, f.level), pnt, ""))
           /\ threads' = Pop(t)
    /\ UNCHANGED <<file, handlers, lockHeld, loggers, traces, nextUUID,
                   sysTerminate, exited>>

\* A TinyLogHandlerFunc whose function panics: no method of the handlers
\* recovers, so the panic leaves every method on the thread's stack, running
\* the deferred lh.Lock.Unlock() of each and nothing else.
TinyPanics(t) ==
    /\ Running(t)
    /\ LET f == Top(t)
           below == {threads[t].stack[k].h : k \in 1..(Depth(t) - 1)}
           pnt == IF f.op = "RegularWriter" THEN f.pnt
                  ELSE rawWriteLogFunc(f.h, f.header, f.message)
       IN  /\ handlers[f.h].kind = "tinypanic"
           /\ events' = Append(events,
                    Event(t, f.h, "failed", TinyLevel(f.op, f.level), pnt,
                          ""))
           /\ lockHeld' = LocksAfterPanic(t, below)
           /\ threads' = [threads EXCEPT ![t].pc = "panicked",
                                         ![t].stack = <<>>]
    /\ UNCHANGED <<file, handlers, loggers, traces, nextUUID, sysTerminate,
                   exited>>

\* the caller of a panicking method recovers, as a deferred recover() does
Recover(t) ==
    /\ exited = "no"
    /\ threads[t].pc = "panicked"
    /\ threads' = [threads EXCEPT ![t].pc = "idle"]
    /\ UNCHANGED <<file, handlers, lockHeld, loggers, traces, nextUUID, events,
                   sysTerminate, exited>>

\* or nothing recovers, and the Go runtime ends the process
Crash(t) ==
    /\ exited = "no"
    /\ threads[t].pc = "panicked"
    /\ exited' = "panic"
    /\ UNCHANGED <<file, handlers, lockHeld, loggers, traces, nextUUID, threads,
                   events, sysTerminate>>

HandlerStep(t) ==
    \/ Enter(t)
    \/ Format(t)
    \/ Delegate(t)
    \/ Self(t)
    \/ Unlock(t)
    \/ Finalize(t)
    \/ Tiny(t)
    \/ Recover(t)
    \/ Crash(t)

-----------------------------------------------------------------------------
(* Heaps of handlers *)

HandlerIds == {1, 2, 3, 4}
LockIds == {1, 2, 3}
FuncSorts == {"absent", "retnil", "retfin", "native"}

\* NativeLogHandler (1), and a chain as in TestLogger: a LogHandlerFunc (2)
\* wrapping a LogHandlerFunc (3) wrapping a TinyLogHandlerFunc (4).
Heap(lockA, convA, regA, pncA, ftlA, wrapA, lockB, regB, wrapB) ==
    (1 :> NewNativeLogHandler(1, NoHandler))
    @@ (2 :> LogHandlerFunc(lockA, convA, regA, pncA, ftlA, wrapA))
    @@ (3 :> LogHandlerFunc(lockB, TRUE, regB, "retfin", "retfin", wrapB))
    @@ (4 :> TinyLogHandlerFunc)

\* the handlers of TestLogger
TestHeap == Heap(NoLock, TRUE, TRUE, "retnil", "retnil", 3, NoLock, TRUE, 4)

ChainHeaps ==
    { Heap(lockA, convA, regA, sort, sort, wrapA, lockB, TRUE, wrapB) :
        lockA \in {NoLock, 2}, convA \in BOOLEAN, regA \in BOOLEAN,
        sort \in FuncSorts, wrapA \in {NoHandler, 3},
        lockB \in {NoLock, 3}, wrapB \in {NoHandler, 4} }

LockHeaps ==
    { Heap(lockA, FALSE, TRUE, "retfin", "retfin", 3, lockB, TRUE, NoHandler) :
        <<lockA, lockB>> \in {<<2, NoLock>>, <<NoLock, 3>>, <<2, 3>>} }

\* a LogHandlerFunc (2) with its own panic and fatal actions, which may
\* panic themselves, and a TinyLogHandlerFunc (4) whose function panics:
\* 2 wraps 4 and LogHandlerFunc 3 stands alone, or 3 has a lock and wraps 4
\* and 2 wraps 3 or nothing
FailHeaps ==
    { [Heap(lockA, FALSE, TRUE, sort, sort, w[1], w[2], TRUE, w[3])
            EXCEPT ![4] = [TinyLogHandlerFunc EXCEPT !.kind = "tinypanic"]] :
        lockA \in {NoLock, 2}, sort \in {"retfin", "native", "panics"},
        w \in {<<4, NoLock, NoHandler>>, <<3, 3, 4>>,
               <<NoHandler, 3, 4>>} }

-----------------------------------------------------------------------------
(* Calls made on a handler directly *)

DirectHeader(level) ==
    [time |-> TimeNowFormat("15:04"), level |-> LevelString(level),
     prefix |-> "direct", trace |-> "", stack |-> ""]

\* a writer of the caller, for RegularWriter
CallerPnt(level) ==
    [header |-> DirectHeader(level), sp |-> "raw\n", by |-> NoHandler]

DirectMessage == <<"m", "1">>

HandlerOps == {"RegularWriter", "RegularLog", "PanicLog", "FatalLog"}

\* thread t calls method op of handler h
HandlerCall(t, h, op, level) ==
    /\ exited = "no"
    /\ threads[t].pc = "idle"
    /\ op \in {"PanicLog", "FatalLog"} => level = DelegateLevel(op, level)
    /\ LET header == IF op = "RegularWriter" THEN NoHeader
                     ELSE DirectHeader(level)
           message == IF op = "RegularWriter" THEN <<>> ELSE DirectMessage
           pnt == IF op = "RegularWriter" THEN CallerPnt(level) ELSE NoPnt
       IN  threads' = [threads EXCEPT
               ![t].pc = "handler",
               ![t].call = [NoCall EXCEPT !.target = "handler", !.id = h,
                                   !.api = op, !.level = level,
                                   !.message = message, !.header = header,
                                   !.h = h, !.op = op],
               ![t].lazy = NoLazy,
               ![t].stack = <<Frame(h, op, level, header, message, pnt)>>]
    /\ events' = OthersEvents(t)
    /\ UNCHANGED <<file, handlers, lockHeld, loggers, traces, nextUUID,
                   sysTerminate, exited>>

-----------------------------------------------------------------------------
(* logger and traceLogger *)

\* New: the logger struct built from a name and a LogConfig.  The struct
\* literal sets no levelct, which is therefore the zero LogLevel.
New(name, config) ==
    LET timefmt == IF config.TimeFormat = "" THEN DefaultTimeFormat
                   ELSE config.TimeFormat
        hander == IF config.Handler = NoHandler THEN NativeId
                  ELSE config.Handler
        nm == IF name = "" THEN "*" ELSE name
    IN  [logHandler |-> hander,
         level |-> config.Level,
         levelct |-> 0,
         prefix |-> nm,
         timefmt |-> timefmt,
         fmtHeader |-> getHeaderFromatter(timefmt, nm, config.LevelWithTrace)]

LogConfig(handler, level, levelWithTrace, timeFormat) ==
    [Handler |-> handler, Level |-> level, LevelWithTrace |-> levelWithTrace,
     TimeFormat |-> timeFormat]

\* a Derive that puts the "." in even when the suffix is empty
DeriveLoggerAlwaysDot(l, pfx) ==
    LET newPrefix == l.prefix \o "." \o pfx
    IN  [logHandler |-> l.logHandler,
         level |-> l.level,
         levelct |-> 0,
         prefix |-> newPrefix,
         timefmt |-> l.timefmt,
         fmtHeader |-> getHeaderFromatter(l.timefmt, newPrefix, l.levelct)]

\* the struct (*logger).Derive returns; again no levelct in the literal
DeriveLogger(l, pfx) ==
    LET newPrefix == IF pfx # "" THEN l.prefix \o "." \o pfx ELSE l.prefix
    IN  [logHandler |-> l.logHandler,
         level |-> l.level,
         levelct |-> 0,
         prefix |-> newPrefix,
         timefmt |-> l.timefmt,
         fmtHeader |-> getHeaderFromatter(l.timefmt, newPrefix, l.levelct)]

Derive(i, pfx) ==
    /\ exited = "no"
    /\ i \in DOMAIN loggers
    /\ loggers' = Append(loggers, DeriveLogger(loggers[i], pfx))
    /\ UNCHANGED <<file, handlers, lockHeld, traces, nextUUID, threads, events,
                   sysTerminate, exited>>

\* a threshold that a logger shares with the loggers derived from it
SetLevelShared(i, level) ==
    /\ exited = "no"
    /\ i \in DOMAIN loggers
    /\ loggers' = [j \in DOMAIN loggers |-> [loggers[j] EXCEPT !.level = level]]
    /\ UNCHANGED <<file, handlers, lockHeld, traces, nextUUID, threads, events,
                   sysTerminate, exited>>

\* atomic.StoreUint32(&l.level, level)
SetLevel(i, level) ==
    /\ exited = "no"
    /\ i \in DOMAIN loggers
    /\ loggers' = [loggers EXCEPT ![i].level = level]
    /\ UNCHANGED <<file, handlers, lockHeld, traces, nextUUID, threads, events,
                   sysTerminate, exited>>

\* under l.mtx: l.levelct = level, and the formatter is rebuilt
SetCallTraceLevel(i, level) ==
    /\ exited = "no"
    /\ i \in DOMAIN loggers
    /\ loggers' = [loggers EXCEPT
            ![i].levelct = level,
            ![i].fmtHeader = getHeaderFromatter(loggers[i].timefmt,
                                                loggers[i].prefix, level)]
    /\ UNCHANGED <<file, handlers, lockHeld, traces, nextUUID, threads, events,
                   sysTerminate, exited>>

\* under l.mtx: l.timefmt = format, and the formatter is rebuilt
SetTimeFormat(i, format) ==
    /\ exited = "no"
    /\ i \in DOMAIN loggers
    /\ loggers' = [loggers EXCEPT
            ![i].timefmt = format,
            ![i].fmtHeader = getHeaderFromatter(format, loggers[i].prefix,
                                                loggers[i].levelct)]
    /\ UNCHANGED <<file, handlers, lockHeld, traces, nextUUID, threads, events,
                   sysTerminate, exited>>

\* under l.mtx: l.logHandler = handler
SetLogHandler(i, handler) ==
    /\ exited = "no"
    /\ i \in DOMAIN loggers
    /\ loggers' = [loggers EXCEPT ![i].logHandler = handler]
    /\ UNCHANGED <<file, handlers, lockHeld, traces, nextUUID, threads, events,
                   sysTerminate, exited>>

\* The wrapper functions the model passes to WrapLogHandler: "same" returns
\* its argument, "nil" returns nil, "native" returns NativeLogHandler and
\* "chain" returns the handler 2 of the heap.
Wrappers == {"same", "nil", "native", "chain"}

\* Wrapper functions that wrap their argument in a handler they make:
\* "wrap" returns &LogHandlerFunc{Wrapper: old}, "wrapconv" the same with a
\* Converter.
WrappingWrappers == {"wrap", "wrapconv"}

\* the handler a wrapping wrapper makes
WrapperMakes(wrapper, old) ==
    LogHandlerFunc(NoLock, wrapper = "wrapconv", FALSE, "absent", "absent",
                   old)

\* where a handler made during the run goes in the heap
NewHandlerId == Cardinality(DOMAIN handlers) + 1

ApplyWrapper(wrapper, old) ==
    CASE wrapper = "same" -> old
      [] wrapper = "nil" -> NoHandler
      [] wrapper = "native" -> NativeId
      [] wrapper \in WrappingWrappers -> NewHandlerId
      [] OTHER -> 2

\* under l.mtx: l.logHandler = wrapper(l.logHandler), NativeLogHandler if nil
WrapLogHandler(i, wrapper) ==
    /\ exited = "no"
    /\ i \in DOMAIN loggers
    /\ LET new == ApplyWrapper(wrapper, loggers[i].logHandler)
       IN  loggers' = [loggers EXCEPT ![i].logHandler =
                          IF new = NoHandler THEN NativeId ELSE new]
    /\ UNCHANGED <<file, handlers, lockHeld, traces, nextUUID, threads, events,
                   sysTerminate, exited>>

-----------------------------------------------------------------------------
(* The setters that take l.mtx, statement by statement *)

\* where a thread is between l.mtx.Lock() and the deferred l.mtx.Unlock()
MtxPcs == {"write", "wrap", "fix", "build", "store", "unlock"}
HandlerSetters == {"SetLogHandler", "WrapLogHandler"}
FormatSetters == {"SetCallTraceLevel", "SetTimeFormat"}

\* l.mtx is write-locked
MtxHeld(i) ==
    \E u \in Threads :
        threads[u].set.logger = i /\ threads[u].pc \in MtxPcs

\* a thread calls SetCallTraceLevel, SetTimeFormat, SetLogHandler or
\* WrapLogHandler of logger i; `set` carries the argument
SetterCall(t, i, set) ==
    /\ exited = "no"
    /\ threads[t].pc = "idle"
    /\ i \in DOMAIN loggers
    /\ set.logger = i
    /\ threads' = [threads EXCEPT ![t].pc = "mtx", ![t].set = set]
    /\ UNCHANGED <<file, handlers, lockHeld, loggers, traces, nextUUID, events,
                   sysTerminate, exited>>

\* a setter that does not wait for l.mtx
MtxLockWithoutWaiting(t) ==
    /\ exited = "no"
    /\ threads[t].pc = "mtx"
    /\ threads' = [threads EXCEPT ![t].pc = "write"]
    /\ UNCHANGED <<file, handlers, lockHeld, loggers, traces, nextUUID, events,
                   sysTerminate, exited>>

\* l.mtx.Lock()
MtxLock(t) ==
    /\ exited = "no"
    /\ threads[t].pc = "mtx"
    /\ ~MtxHeld(threads[t].set.logger)
    /\ threads' = [threads EXCEPT ![t].pc = "write"]
    /\ UNCHANGED <<file, handlers, lockHeld, loggers, traces, nextUUID, events,
                   sysTerminate, exited>>

\* wrapper(l.logHandler) is evaluated: the field is read for the argument
MtxRead(t) ==
    /\ exited = "no"
    /\ threads[t].pc = "write"
    /\ threads[t].set.api = "WrapLogHandler"
    /\ threads' = [threads EXCEPT
            ![t].pc = "wrap",
            ![t].set.old = loggers[threads[t].set.logger].logHandler]
    /\ UNCHANGED <<file, handlers, lockHeld, loggers, traces, nextUUID, events,
                   sysTerminate, exited>>

\* the assignment of the field: l.levelct = level, l.timefmt = format,
\* l.logHandler = handler, or l.logHandler = wrapper(l.logHandler) with the
\* argument that was read
MtxWrite(t) ==
    /\ exited = "no"
    /\ threads[t].pc =
            IF threads[t].set.api = "WrapLogHandler" THEN "wrap" ELSE "write"
    /\ LET s == threads[t].set
           i == s.logger
       IN  /\ handlers' =
                IF s.api = "WrapLogHandler" /\ s.wrapper \in WrappingWrappers
                THEN handlers @@ (NewHandlerId :> WrapperMakes(s.wrapper, s.old))
                ELSE handlers
           /\ loggers' =
                CASE s.api = "SetCallTraceLevel" ->
                        [loggers EXCEPT ![i].levelct = s.level]
                  [] s.api = "SetTimeFormat" ->
                        [loggers EXCEPT ![i].timefmt = s.format]
                  [] s.api = "SetLogHandler" ->
                        [loggers EXCEPT ![i].logHandler = s.handler]
                  [] OTHER ->
                        [loggers EXCEPT ![i].logHandler =
                            ApplyWrapper(s.wrapper, s.old)]
           /\ threads' = [threads EXCEPT ![t].pc =
                CASE s.api \in FormatSetters -> "build"
                  [] s.api = "WrapLogHandler" -> "fix"
                  [] OTHER -> "unlock"]
    /\ UNCHANGED <<file, lockHeld, traces, nextUUID, events, sysTerminate,
                   exited>>

\* if l.logHandler == nil { l.logHandler = NativeLogHandler }
MtxFix(t) ==
    /\ exited = "no"
    /\ threads[t].pc = "fix"
    /\ LET i == threads[t].set.logger
       IN  loggers' = IF loggers[i].logHandler = NoHandler
                      THEN [loggers EXCEPT ![i].logHandler = NativeId]
                      ELSE loggers
    /\ threads' = [threads EXCEPT ![t].pc = "unlock"]
    /\ UNCHANGED <<file, handlers, lockHeld, traces, nextUUID, events,
                   sysTerminate, exited>>

\* getHeaderFromatter(l.timefmt, l.prefix, l.levelct, 4): the fields are
\* read and the closure is made
MtxBuild(t) ==
    /\ exited = "no"
    /\ threads[t].pc = "build"
    /\ LET l == loggers[threads[t].set.logger]
       IN  threads' = [threads EXCEPT
                ![t].pc = "store",
                ![t].set.built =
                    getHeaderFromatter(l.timefmt, l.prefix, l.levelct)]
    /\ UNCHANGED <<file, handlers, lockHeld, loggers, traces, nextUUID, events,
                   sysTerminate, exited>>

\* l.fmtHeader = (the closure)
MtxStore(t) ==
    /\ exited = "no"
    /\ threads[t].pc = "store"
    /\ loggers' = [loggers EXCEPT
            ![threads[t].set.logger].fmtHeader = threads[t].set.built]
    /\ threads' = [threads EXCEPT ![t].pc = "unlock"]
    /\ UNCHANGED <<file, handlers, lockHeld, traces, nextUUID, events,
                   sysTerminate, exited>>

\* the deferred l.mtx.Unlock(), and the return
MtxUnlock(t) ==
    /\ exited = "no"
    /\ threads[t].pc = "unlock"
    /\ threads' = [threads EXCEPT ![t].pc = "idle", ![t].set = NoSet]
    /\ UNCHANGED <<file, handlers, lockHeld, loggers, traces, nextUUID, events,
                   sysTerminate, exited>>

\* An interface value is two words.  A read of l.logHandler that no lock
\* orders with a write of it in another thread may return the words of two
\* different values.
TornHandler == NoHandler - 1

\* what a read of l.logHandler of logger i by thread t, made without l.mtx,
\* may return: the value stored, or a torn value when another thread is at
\* an assignment of the field
HandlerRead(t, i) ==
    {loggers[i].logHandler}
        \cup {TornHandler : u \in {u \in Threads :
                    /\ u # t
                    /\ threads[u].set.logger = i
                    /\ threads[u].set.api \in HandlerSetters
                    /\ threads[u].pc \in
                         IF threads[u].set.api = "WrapLogHandler"
                         THEN {"wrap", "fix"} ELSE {"write"}}}

-----------------------------------------------------------------------------

\* uuid.NewV7 gives a fresh id, or the zero UUID with an error that
\* newTraceID drops
UUIDString(n) == "uuid-" \o ToString(n)

\* newTraceID: id, _ := uuid.NewV7(); traceID{name: name, id: id.String()}
newTraceID(name, n, ok) ==
    [name |-> name, id |-> IF ok THEN UUIDString(n) ELSE NilUUID]

\* &traceLogger{parent: l, tid: tid}
traceLogger(parent, tid) == [parent |-> parent, tid |-> tid]

\* a Trace whose traceID is one value that all trace loggers point to
TraceSharedTid(i, name, ok) ==
    /\ exited = "no"
    /\ i \in DOMAIN loggers
    /\ LET tid == newTraceID(name, nextUUID, ok)
       IN  traces' = Append([k \in DOMAIN traces |->
                                [traces[k] EXCEPT !.tid = tid]],
                            traceLogger(i, tid))
    /\ nextUUID' = IF ok THEN nextUUID + 1 ELSE nextUUID
    /\ UNCHANGED <<file, handlers, lockHeld, loggers, threads, events,
                   sysTerminate, exited>>

\* (*logger).Trace
Trace(i, name, ok) ==
    /\ exited = "no"
    /\ i \in DOMAIN loggers
    /\ traces' = Append(traces,
                        traceLogger(i, newTraceID(name, nextUUID, ok)))
    /\ nextUUID' = IF ok THEN nextUUID + 1 ELSE nextUUID
    /\ UNCHANGED <<file, handlers, lockHeld, loggers, threads, events,
                   sysTerminate, exited>>

\* the receivers of the logging methods: a logger, or a traceLogger, which
\* uses its parent's fields
Receivers ==
    {<<"logger", i>> : i \in DOMAIN loggers}
        \cup {<<"trace", k>> : k \in DOMAIN traces}

ParentOf(target, id) == IF target = "trace" THEN traces[id].parent ELSE id
\* a traceLogger that hands no traceID to the formatter
TidOfNil(target, id) == NoTid
TidOf(target, id) == IF target = "trace" THEN traces[id].tid ELSE NoTid

\* a threshold test that lets the level just below the threshold through
LevelEnabledOffByOne(threshold, level) == threshold <= level + 1

\* atomic.LoadUint32(&l.level) <= uint32(level)
LevelEnabled(threshold, level) == threshold <= level

\* what the three styles hand on as the message: the operands as given, or
\* the one string fmt.Sprintf makes of them
StyleMessage(style) ==
    CASE style = "format" -> <<"f=1">>
      [] style = "lazy" -> <<"lazy", "2">>
      [] OTHER -> <<"a", "b">>

StartCall(t, target, id, api, style, level) ==
    [threads EXCEPT
        ![t].pc = "hdr",
        ![t].lazy = IF style = "lazy" THEN @ ELSE NoLazy,
        ![t].call = [NoCall EXCEPT !.target = target, !.id = id, !.api = api,
                            !.style = style, !.level = level,
                            !.enabled = TRUE,
                            !.message = StyleMessage(style)]]

\* Dbg/Inf/War/Err and Dbgf/Inff/Warf/Errf of a logger or a traceLogger:
\* the threshold test; nothing more when the level is disabled
Log(t, target, id, level, style) ==
    /\ exited = "no"
    /\ threads[t].pc = "idle"
    /\ <<target, id>> \in Receivers
    /\ LET threshold == loggers[ParentOf(target, id)].level
       IN  threads' =
             IF LevelEnabled(threshold, level)
             THEN StartCall(t, target, id, "regular", style, level)
             ELSE [threads EXCEPT
                     ![t].lazy = NoLazy,
                     ![t].call = [NoCall EXCEPT !.target = target, !.id = id,
                                    !.api = "regular", !.style = style,
                                    !.level = level]]
    /\ events' = OthersEvents(t)
    /\ UNCHANGED <<file, handlers, lockHeld, loggers, traces, nextUUID,
                   sysTerminate, exited>>

\* DbgP/InfP/WarP/ErrP: the same test; the callable, or nil
LogP(t, target, id, level) ==
    /\ exited = "no"
    /\ threads[t].pc = "idle"
    /\ <<target, id>> \in Receivers
    /\ LET threshold == loggers[ParentOf(target, id)].level
           enabled == LevelEnabled(threshold, level)
       IN  threads' = [threads EXCEPT
               ![t].lazy = IF enabled
                           THEN [target |-> target, id |-> id, level |-> level]
                           ELSE NoLazy,
               ![t].call = [NoCall EXCEPT !.target = target, !.id = id,
                               !.api = "regular", !.style = "lazy",
                               !.level = level, !.enabled = enabled,
                               !.ret = IF enabled THEN "func" ELSE "nil"]]
    /\ events' = OthersEvents(t)
    /\ UNCHANGED <<file, handlers, lockHeld, loggers, traces, nextUUID,
                   sysTerminate, exited>>

\* a callable that tests the level again when it is called
CallPTestsLevel(t) ==
    /\ exited = "no"
    /\ threads[t].pc = "idle"
    /\ threads[t].lazy # NoLazy
    /\ LET z == threads[t].lazy
       IN  /\ LevelEnabled(loggers[ParentOf(z.target, z.id)].level, z.level)
           /\ threads' = StartCall(t, z.target, z.id, "regular", "lazy",
                                   z.level)
    /\ events' = OthersEvents(t)
    /\ UNCHANGED <<file, handlers, lockHeld, loggers, traces, nextUUID,
                   sysTerminate, exited>>

\* the callable a lazy method returned is called: no test of the level
CallP(t) ==
    /\ exited = "no"
    /\ threads[t].pc = "idle"
    /\ threads[t].lazy # NoLazy
    /\ LET z == threads[t].lazy
       IN  threads' = StartCall(t, z.target, z.id, "regular", "lazy", z.level)
    /\ events' = OthersEvents(t)
    /\ UNCHANGED <<file, handlers, lockHeld, loggers, traces, nextUUID,
                   sysTerminate, exited>>

\* Panic and Fatal with the threshold test of the regular methods
PanicFatalWithThreshold(t, i, api, style) ==
    /\ exited = "no"
    /\ threads[t].pc = "idle"
    /\ i \in DOMAIN loggers
    /\ LET level == IF api = "panic" THEN PANIC ELSE FATAL
       IN  threads' =
             IF LevelEnabled(loggers[i].level, level)
             THEN StartCall(t, "logger", i, api, style, level)
             ELSE [threads EXCEPT
                     ![t].lazy = NoLazy,
                     ![t].call = [NoCall EXCEPT !.target = "logger", !.id = i,
                                    !.api = api, !.style = style,
                                    !.level = level]]
    /\ events' = OthersEvents(t)
    /\ UNCHANGED <<file, handlers, lockHeld, loggers, traces, nextUUID,
                   sysTerminate, exited>>

\* Panic/Panicf and Fatal/Fatalf of a logger: no test of the level
PanicFatal(t, i, api, style) ==
    /\ exited = "no"
    /\ threads[t].pc = "idle"
    /\ i \in DOMAIN loggers
    /\ threads' = StartCall(t, "logger", i, api, style,
                            IF api = "panic" THEN PANIC ELSE FATAL)
    /\ events' = OthersEvents(t)
    /\ UNCHANGED <<file, handlers, lockHeld, loggers, traces, nextUUID,
                   sysTerminate, exited>>

\* header := l.getFmtHeader()(level, tid); getFmtHeader reads l.fmtHeader
\* under l.mtx.RLock()
BuildHeader(t) ==
    /\ exited = "no"
    /\ threads[t].pc = "hdr"
    /\ ~MtxHeld(ParentOf(threads[t].call.target, threads[t].call.id))
    /\ LET c == threads[t].call
           l == loggers[ParentOf(c.target, c.id)]
       IN  threads' = [threads EXCEPT
               ![t].pc = "disp",
               ![t].call.header =
                   FmtHeader(l.fmtHeader, c.level, TidOf(c.target, c.id))]
    /\ UNCHANGED <<file, handlers, lockHeld, loggers, traces, nextUUID, events,
                   sysTerminate, exited>>

\* the handler method each method family ends in
ApiOp(api) ==
    CASE api = "panic" -> "PanicLog"
      [] api = "fatal" -> "FatalLog"
      [] OTHER -> "RegularLog"

\* l.logHandler.RegularLog / PanicLog / FatalLog (header, message...): the
\* field is read without l.mtx.  A method call on a nil LogHandler is a
\* run-time panic; a method call on a torn value is a fault of the process.
Dispatch(t) ==
    /\ exited = "no"
    /\ threads[t].pc = "disp"
    /\ LET c == threads[t].call
           op == ApiOp(c.api)
       IN  \E h \in HandlerRead(t, ParentOf(c.target, c.id)) :
             /\ threads' =
                  IF h = NoHandler
                  THEN [threads EXCEPT ![t].pc = "panicked"]
                  ELSE IF h = TornHandler
                  THEN [threads EXCEPT ![t].pc = "fault"]
                  ELSE [threads EXCEPT
                          ![t].pc = "handler",
                          ![t].call.h = h,
                          ![t].call.op = op,
                          ![t].stack = <<Frame(h, op, c.level, c.header,
                                               c.message, NoPnt)>>]
             /\ exited' = IF h = TornHandler THEN "fault" ELSE exited
    /\ UNCHANGED <<file, handlers, lockHeld, loggers, traces, nextUUID, events,
                   sysTerminate>>

-----------------------------------------------------------------------------
(* NewFileAccessorLogHandler: the file sink, statement by statement *)

\* handler invocations of one sink
MaxWrites == 2

\* the sink right after NewFileAccessorLogHandler has returned: the file is
\* open, nothing is written, the file holder goroutine waits in its select
FileOpened ==
    [fp |-> "open",              \* fp: "open", or "nil" after fp = nil
     countwrt |-> 0,             \* countwrt
     lastflush |-> 0,            \* lastflush
     readers |-> {},             \* holders of fplock.RLock
     done |-> FALSE,             \* ctx.Done() is closed
     timer |-> FALSE,            \* the channel of time.After has fired
     holder |-> "select",        \* position of the file holder goroutine
     c |-> 0,                    \* c of the running flush
     pc |-> [t \in Threads |-> "idle"],   \* position in handler, per caller
     after |-> [t \in Threads |-> FALSE], \* the call began after ctx.Done
     wrote |-> [t \in Threads |-> FALSE], \* the call has run pnt(fp)
     calls |-> 0,                \* handler invocations begun
     written |-> 0,              \* records written to the file
     synced |-> 0,               \* records covered by the last fp.Sync
     syncs |-> 0,                \* fp.Sync calls
     closes |-> 0,               \* fp.Close calls
     touched |-> FALSE]          \* a write or count since the last fp.Sync

\* the file holder goroutine among the holders of fplock.RLock
FileHolder == 0

\* fplock is write-locked, or a Lock call waits for the readers to leave:
\* RLock blocks in both cases
FileLockClaimed == file.holder \in {"wait", "close", "nil", "unlock"}

FileStep(f) ==
    /\ file' = f
    /\ UNCHANGED <<handlers, lockHeld, loggers, traces, nextUUID, threads,
                   events, sysTerminate, exited>>

\* a caller invokes handler(level, pnt)
FileHandlerCall(t) ==
    /\ file.pc[t] = "idle"
    /\ file.calls < MaxWrites
    /\ FileStep([file EXCEPT !.pc[t] = "rlock",
                             !.after[t] = file.done,
                             !.wrote[t] = FALSE,
                             !.calls = @ + 1])

\* a handler that does not look at fp
FileHandlerRLockNoCheck(t) ==
    /\ file.pc[t] = "rlock"
    /\ ~FileLockClaimed
    /\ FileStep([file EXCEPT !.readers = @ \cup {t}, !.pc[t] = "write"])

\* fplock.RLock(); if fp == nil { return }
FileHandlerRLock(t) ==
    /\ file.pc[t] = "rlock"
    /\ ~FileLockClaimed
    /\ FileStep([file EXCEPT
            !.readers = @ \cup {t},
            !.pc[t] = IF file.fp = "nil" THEN "runlock" ELSE "write"])

\* a handler that writes and goes past countwrt.Add(1)
FileHandlerWriteUncounted(t) ==
    /\ file.pc[t] = "write"
    /\ FileStep([file EXCEPT !.written = @ + 1,
                             !.wrote[t] = TRUE,
                             !.touched = TRUE,
                             !.pc[t] = "runlock"])

\* pnt(fp)
FileHandlerWrite(t) ==
    /\ file.pc[t] = "write"
    /\ FileStep([file EXCEPT !.written = @ + 1,
                             !.wrote[t] = TRUE,
                             !.touched = TRUE,
                             !.pc[t] = "count"])

\* countwrt.Add(1)
FileHandlerCount(t) ==
    /\ file.pc[t] = "count"
    /\ FileStep([file EXCEPT !.countwrt = @ + 1,
                             !.touched = TRUE,
                             !.pc[t] = "runlock"])

\* the deferred fplock.RUnlock()
FileHandlerRUnlock(t) ==
    /\ file.pc[t] = "runlock"
    /\ FileStep([file EXCEPT !.readers = @ \ {t}, !.pc[t] = "idle"])

\* the owner of ctx cancels it
Cancel ==
    /\ ~file.done
    /\ FileStep([file EXCEPT !.done = TRUE])

\* two seconds pass while the goroutine waits in select with neither case
\* ready
TimerFires ==
    /\ file.holder = "select"
    /\ ~file.done
    /\ ~file.timer
    /\ FileStep([file EXCEPT !.timer = TRUE])

\* case <-time.After(2 * time.Second): flush()
SelectTick ==
    /\ file.holder = "select"
    /\ file.timer
    /\ FileStep([file EXCEPT !.timer = FALSE, !.holder = "flush"])

\* case <-ctx.Done():
SelectDone ==
    /\ file.holder = "select"
    /\ file.done
    /\ FileStep([file EXCEPT !.timer = FALSE, !.holder = "lock"])

\* flush: fplock.RLock(); if fp == nil { return }
FlushRLock ==
    /\ file.holder = "flush"
    /\ FileStep([file EXCEPT
            !.readers = @ \cup {FileHolder},
            !.holder = IF file.fp = "nil" THEN "runlock" ELSE "load"])

\* flush: c := countwrt.Load(); if c == lastflush { return }; lastflush = c
FlushLoad ==
    /\ file.holder = "load"
    /\ FileStep([file EXCEPT
            !.c = file.countwrt,
            !.lastflush = file.countwrt,
            !.holder = IF file.countwrt = file.lastflush THEN "runlock"
                       ELSE "sync"])

\* flush: fp.Sync()
FlushSync ==
    /\ file.holder = "sync"
    /\ FileStep([file EXCEPT !.synced = file.written,
                             !.syncs = @ + 1,
                             !.touched = FALSE,
                             !.holder = "runlock"])

\* flush: the deferred fplock.RUnlock()
FlushRUnlock ==
    /\ file.holder = "runlock"
    /\ FileStep([file EXCEPT !.readers = @ \ {FileHolder},
                             !.holder = "select"])

\* fplock.Lock() is called: the readers in are waited for, no reader gets in
CloseLockCall ==
    /\ file.holder = "lock"
    /\ FileStep([file EXCEPT !.holder = "wait"])

\* an fplock.Lock() that returns while readers are in
CloseLockWithoutWaiting ==
    /\ file.holder = "wait"
    /\ FileStep([file EXCEPT !.holder = "close"])

\* fplock.Lock() returns
CloseLock ==
    /\ file.holder = "wait"
    /\ file.readers = {}
    /\ FileStep([file EXCEPT !.holder = "close"])

\* fp.Close()
CloseFile ==
    /\ file.holder = "close"
    /\ FileStep([file EXCEPT !.closes = @ + 1, !.holder = "nil"])

\* fp = nil
CloseNil ==
    /\ file.holder = "nil"
    /\ FileStep([file EXCEPT !.fp = "nil", !.holder = "unlock"])

\* a file holder that goes round the loop again after the close
CloseUnlockAndLoop ==
    /\ file.holder = "unlock"
    /\ file.closes < 2
    /\ FileStep([file EXCEPT !.holder = "select"])

\* the deferred fplock.Unlock(); return
CloseUnlock ==
    /\ file.holder = "unlock"
    /\ FileStep([file EXCEPT !.holder = "stopped"])

\* the file holder goroutine
FileHolderStep ==
    \/ SelectTick
    \/ SelectDone
    \/ FlushRLock
    \/ FlushLoad
    \/ FlushSync
    \/ FlushRUnlock
    \/ CloseLockCall
    \/ CloseLock
    \/ CloseFile
    \/ CloseNil
    \/ CloseUnlock

\* a caller inside handler
FileHandlerStep(t) ==
    \/ FileHandlerRLock(t)
    \/ FileHandlerWrite(t)
    \/ FileHandlerCount(t)
    \/ FileHandlerRUnlock(t)

InitCommon ==
    /\ file = FileOpened
    /\ lockHeld = [k \in LockIds |-> FALSE]
    /\ traces = <<>>
    /\ nextUUID = 1
    /\ threads = [t \in Threads |-> IdleThread]
    /\ events = <<>>
    /\ exited = "no"

\* One thread calls the methods of the handlers of a chain.
MainThread == CHOOSE t \in Threads : \A u \in Threads : t <= u

InitChain ==
    /\ InitCommon
    /\ handlers \in ChainHeaps
    /\ loggers = <<>>
    /\ sysTerminate \in {"exit", "hook"}

NextChain ==
    \/ \E h \in HandlerIds, op \in HandlerOps, level \in {INFO, ERROR} :
            HandlerCall(MainThread, h, op, DelegateLevel(op, level))
    \/ HandlerStep(MainThread)

SpecChain == InitChain /\ [][NextChain]_vars

\* Several threads call the methods of the handlers of a chain with locks.
InitLock ==
    /\ InitCommon
    /\ handlers \in LockHeaps
    /\ loggers = <<>>
    /\ sysTerminate = "hook"

NextLock ==
    \E t \in Threads :
        \/ \E h \in {2}, op \in HandlerOps :
                HandlerCall(t, h, op, DelegateLevel(op, INFO))
        \/ Enter(t)
        \/ Format(t)
        \/ Delegate(t)
        \/ Self(t)
        \/ Unlock(t)
        \/ Finalize(t)

SpecLock == InitLock /\ [][NextLock]_vars

-----------------------------------------------------------------------------
(* One thread uses a logger built by New, and the trace loggers made from
   it, while the threshold is set at any moment. *)

InitLogger ==
    /\ InitCommon
    /\ handlers = TestHeap
    /\ \E handler \in {NoHandler, 2, 4}, level \in {DEBUG, INFO},
          levelWithTrace \in {DEBUG, WARN} :
            loggers = <<New("TestPrefix",
                            LogConfig(handler, level, levelWithTrace, ""))>>
    /\ sysTerminate \in {"exit", "hook"}

NextLogger ==
    \/ \E i \in DOMAIN loggers, level \in Levels : SetLevel(i, level)
    \/ \E i \in DOMAIN loggers, name \in {"", "TR"} :
            Len(traces) < MaxTraces /\ Trace(i, name, TRUE)
    \/ \E r \in Receivers, level \in UserLevels,
          style \in {"immediate", "format"} :
            Log(MainThread, r[1], r[2], level, style)
    \/ \E r \in Receivers, level \in UserLevels :
            LogP(MainThread, r[1], r[2], level)
    \/ CallP(MainThread)
    \/ \E i \in DOMAIN loggers, api \in {"panic", "fatal"},
          style \in {"immediate", "format"} :
            PanicFatal(MainThread, i, api, style)
    \/ BuildHeader(MainThread)
    \/ Dispatch(MainThread)
    \/ HandlerStep(MainThread)

Spec == InitLogger /\ [][NextLogger]_vars

-----------------------------------------------------------------------------
(* Loggers are derived and reconfigured. *)

InitConfig ==
    /\ InitCommon
    /\ handlers = TestHeap
    /\ \E handler \in {NoHandler, 2}, levelWithTrace \in {DEBUG, WARN},
          timeFormat \in {"", "15:04"} :
            loggers = <<New("app", LogConfig(handler, INFO, levelWithTrace,
                                            timeFormat))>>
    /\ sysTerminate = "hook"

NextConfig ==
    \E i \in DOMAIN loggers :
        \/ \E pfx \in {"", "d"} : Len(loggers) < MaxLoggers /\ Derive(i, pfx)
        \/ \E level \in {INFO, ERROR} : SetLevel(i, level)
        \/ \E level \in {DEBUG, WARN} : SetCallTraceLevel(i, level)
        \/ \E format \in {"15:04"} : SetTimeFormat(i, format)
        \/ \E handler \in {NoHandler, 2} : SetLogHandler(i, handler)
        \/ \E wrapper \in Wrappers : WrapLogHandler(i, wrapper)

SpecConfig == InitConfig /\ [][NextConfig]_vars

-----------------------------------------------------------------------------
(* One thread logs through the trace loggers of a logger, the first of which
   was made right after the logger, while the logger is reconfigured. *)

InitTrace ==
    /\ file = FileOpened
    /\ lockHeld = [k \in LockIds |-> FALSE]
    /\ threads = [t \in Threads |-> IdleThread]
    /\ events = <<>>
    /\ exited = "no"
    /\ handlers = TestHeap
    /\ loggers = <<New("app", LogConfig(4, INFO, WARN, ""))>>
    /\ \E ok \in BOOLEAN :
            /\ traces = <<traceLogger(1, newTraceID("TR", 1, ok))>>
            /\ nextUUID = IF ok THEN 2 ELSE 1
    /\ sysTerminate = "hook"

NextTrace ==
    \/ \E level \in {INFO, ERROR} : SetLevel(1, level)
    \/ \E handler \in {NoHandler, NativeId, 4} : SetLogHandler(1, handler)
    \/ \E wrapper \in {"same", "nil"} : WrapLogHandler(1, wrapper)
    \/ SetTimeFormat(1, "15:04")
    \/ \E level \in {DEBUG, ERROR} : SetCallTraceLevel(1, level)
    \/ \E name \in {"", "TR"}, ok \in BOOLEAN :
            Len(traces) < MaxTraces + 1 /\ Trace(1, name, ok)
    \/ \E k \in DOMAIN traces, level \in {INFO, WARN} :
            Log(MainThread, "trace", k, level, "immediate")
    \/ BuildHeader(MainThread)
    \/ Dispatch(MainThread)
    \/ Enter(MainThread)
    \/ Format(MainThread)
    \/ Delegate(MainThread)
    \/ Self(MainThread)
    \/ Unlock(MainThread)
    \/ Tiny(MainThread)
    \/ Recover(MainThread)

SpecTrace == InitTrace /\ [][NextTrace]_vars

-----------------------------------------------------------------------------
(* Several threads log through one logger and set its handler. *)

\* the calls of SetLogHandler and WrapLogHandler the threads make
HandlerSetterCalls ==
    {[NoSet EXCEPT !.logger = 1, !.api = "SetLogHandler", !.handler = 4],
     [NoSet EXCEPT !.logger = 1, !.api = "WrapLogHandler", !.wrapper = "nil"]}

InitRace ==
    /\ InitCommon
    /\ handlers = TestHeap
    /\ loggers = <<New("app", LogConfig(4, INFO, DEBUG, ""))>>
    /\ sysTerminate = "hook"

NextRace ==
    \E t \in Threads :
        \/ \E set \in HandlerSetterCalls : SetterCall(t, 1, set)
        \/ MtxLock(t)
        \/ MtxRead(t)
        \/ MtxWrite(t)
        \/ MtxFix(t)
        \/ MtxUnlock(t)
        \/ Log(t, "logger", 1, WARN, "immediate")
        \/ BuildHeader(t)
        \/ Dispatch(t)
        \/ Enter(t)
        \/ Format(t)
        \/ Delegate(t)
        \/ Self(t)
        \/ Unlock(t)
        \/ Tiny(t)
        \/ Recover(t)

SpecRace == InitRace /\ [][NextRace]_vars

-----------------------------------------------------------------------------
(* Several threads call the methods of any handler of a chain of three
   handlers with locks: handler 2 wraps handler 3, which wraps
   NativeLogHandler. *)

\* the locks of handlers 2 and 3; NativeLogHandler has lock 1.  In the first
\* three every handler with a lock has its own, in the others handler 2 has
\* the lock of handler 3, handler 2 has the lock of NativeLogHandler, and
\* handler 3 has the lock of NativeLogHandler.
ChainLockHeaps ==
    { Heap(w[1], FALSE, FALSE, "absent", "absent", 3, w[2], FALSE,
           NativeId) :
        w \in {<<2, 3>>, <<NoLock, 3>>, <<2, NoLock>>,
               <<3, 3>>, <<1, 3>>, <<2, 1>>} }

InitChainLock ==
    /\ InitCommon
    /\ handlers \in ChainLockHeaps
    /\ loggers = <<>>
    /\ sysTerminate = "hook"

\* what a thread inside a method does when it is not at lh.Lock.Lock()
ChainLockStep(t) ==
    \/ Format(t)
    \/ Delegate(t)
    \/ Self(t)
    \/ Unlock(t)
    \/ Finalize(t)
    \/ Recover(t)

NextChainLock ==
    \E t \in Threads :
        \/ \E h \in {NativeId, 2, 3}, op \in HandlerOps :
                HandlerCall(t, h, op, DelegateLevel(op, INFO))
        \/ Enter(t)
        \/ ChainLockStep(t)

SpecChainLock == InitChainLock /\ [][NextChainLock]_vars

\* every thread inside a method goes on, and a thread at lh.Lock.Lock() of a
\* sync.Mutex that is unlocked again and again gets it
SpecChainLockFair ==
    /\ SpecChainLock
    /\ \A t \in Threads : WF_vars(ChainLockStep(t)) /\ SF_vars(Enter(t))

-----------------------------------------------------------------------------
(* Every thread wraps and sets the handler of one logger. *)

\* how many handlers the wrappers make in a run
MaxWraps == 2

\* the calls of WrapLogHandler and SetLogHandler the threads make
WrapSetterCalls ==
    {[NoSet EXCEPT !.logger = 1, !.api = "WrapLogHandler", !.wrapper = w] :
        w \in WrappingWrappers \cup {"nil"}}
    \cup {[NoSet EXCEPT !.logger = 1, !.api = "SetLogHandler", !.handler = 3]}

\* handlers made and calls begun that will make one
WrapsBegun ==
    Cardinality(DOMAIN handlers \ HandlerIds)
    + Cardinality({t \in Threads :
            /\ threads[t].set.api = "WrapLogHandler"
            /\ threads[t].set.wrapper \in WrappingWrappers
            /\ threads[t].pc \in {"mtx", "write", "wrap"}})

InitWrap ==
    /\ InitCommon
    /\ handlers = Heap(NoLock, TRUE, TRUE, "retnil", "retnil", NoHandler,
                       NoLock, TRUE, NoHandler)
    /\ loggers = <<New("app", LogConfig(4, INFO, DEBUG, ""))>>
    /\ sysTerminate = "hook"

NextWrap ==
    \E t \in Threads :
        \/ \E set \in WrapSetterCalls :
                /\ set.wrapper \in WrappingWrappers => WrapsBegun < MaxWraps
                /\ SetterCall(t, 1, set)
        \/ MtxLock(t)
        \/ MtxRead(t)
        \/ MtxWrite(t)
        \/ MtxFix(t)
        \/ MtxUnlock(t)

SpecWrap == InitWrap /\ [][NextWrap]_vars

-----------------------------------------------------------------------------
(* One thread logs through a logger while every thread sets its time format
   and its call-trace threshold. *)

\* the calls of SetTimeFormat and SetCallTraceLevel the threads make
FormatSetterCalls ==
    {[NoSet EXCEPT !.logger = 1, !.api = "SetTimeFormat", !.format = "15:04"],
     [NoSet EXCEPT !.logger = 1, !.api = "SetCallTraceLevel", !.level = ERROR]}

InitFormat ==
    /\ InitCommon
    /\ handlers = TestHeap
    /\ \E levelWithTrace \in {DEBUG, WARN} :
            loggers = <<New("app", LogConfig(4, INFO, levelWithTrace, ""))>>
    /\ sysTerminate = "hook"

NextFormat ==
    \/ \E t \in Threads :
        \/ \E set \in FormatSetterCalls : SetterCall(t, 1, set)
        \/ MtxLock(t)
        \/ MtxWrite(t)
        \/ MtxBuild(t)
        \/ MtxStore(t)
        \/ MtxUnlock(t)
    \/ Log(MainThread, "logger", 1, WARN, "immediate")
    \/ BuildHeader(MainThread)
    \/ Dispatch(MainThread)
    \/ Tiny(MainThread)

SpecFormat == InitFormat /\ [][NextFormat]_vars

-----------------------------------------------------------------------------
(* Loggers are derived from a logger and from the loggers derived from it. *)

Suffixes == {"", "a", "b"}

InitDerive ==
    /\ InitCommon
    /\ handlers = TestHeap
    /\ \E name \in {"", "app"}, levelWithTrace \in {DEBUG, WARN} :
            loggers = <<New(name, LogConfig(NoHandler, INFO, levelWithTrace,
                                           ""))>>
    /\ sysTerminate = "hook"

NextDerive ==
    \E i \in DOMAIN loggers, pfx \in Suffixes :
        Len(loggers) < MaxLoggers + 2 /\ Derive(i, pfx)

SpecDerive == InitDerive /\ [][NextDerive]_vars

-----------------------------------------------------------------------------
(* Vocabulary of the properties *)

EventsOf(t) == SelectSeq(events, LAMBDA e : e.t = t)

\* how many events of a sequence are of handler h and of one of the kinds
CountOf(ev, h, kinds) ==
    Cardinality({k \in DOMAIN ev : ev[k].h = h /\ ev[k].kind \in kinds})

\* the handlers reached from h through Wrapper, h first
RECURSIVE ChainOf(_)
ChainOf(h) ==
    IF h = NoHandler THEN <<>> ELSE <<h>> \o ChainOf(handlers[h].Wrapper)

Range(seq) == {seq[k] : k \in DOMAIN seq}

\* the handlers wrapped, at any depth, by h
Below(h) == Range(ChainOf(h)) \ {h}

\* h has an effect of its own on the regular path
HasRegular(h) == handlers[h].kind = "tiny" \/ handlers[h].RegularLogFunc

RegularKinds == {"regular", "tiny"}
OwnKinds == {"regular", "tiny", "panic", "fatal"}
FinKinds == {"fin", "raise", "terminate", "exit"}

LevelNames == <<"DEBUG", "INFO", "WARN", "ERROR", "PANIC", "FATAL">>

\* the call of thread t is over: it returned, it panicked, or the process
\* has ended
Over(t) == threads[t].pc \in {"idle", "panicked"} \/ exited # "no"

\* thread t is back from (or never was in) a call, and none of its calls has
\* left an effect
Quiet(t) ==
    /\ threads[t].pc = "idle"
    /\ threads[t].stack = <<>>
    /\ threads[t].lazy = NoLazy
    /\ threads[t].call.h = NoHandler
    /\ EventsOf(t) = <<>>

-----------------------------------------------------------------------------
(* C1 *)

C1_Inv ==
    \A t \in Threads :
        LET c == threads[t].call
        IN  (c.api = "regular" /\ ~c.enabled) =>
                /\ Quiet(t)
                /\ c.style = "lazy" => c.ret = "nil"

C1_Step ==
    \A r \in Receivers, level \in UserLevels :
        LET t == MainThread
            c == threads[t].call
        IN  level < loggers[ParentOf(r[1], r[2])].level =>
              /\ (\E style \in {"immediate", "format"} :
                        Log(t, r[1], r[2], level, style))
                    => (Quiet(t)' /\ ~c.enabled')
              /\ LogP(t, r[1], r[2], level)
                    => (Quiet(t)' /\ ~c.enabled' /\ c.ret' = "nil")

\* C1: a call of an immediate, format-string or lazy method of a logger or
\* of a trace logger at a user level strictly below the logger's threshold
\* invokes no handler operation and no handler function, now or later, and the
\* lazy method returns nil.
C1_DisabledLevelIsNoOp == []C1_Inv /\ [][C1_Step]_vars

C1_Witness ==
    LET c == threads[MainThread].call
    IN  /\ c.target = "trace"
        /\ c.style = "lazy"
        /\ c.level = ERROR
        /\ c.ret = "nil"
        /\ loggers[1].level = FATAL
        /\ loggers[1].logHandler = 2

-----------------------------------------------------------------------------
(* C2 *)

\* the regular call of thread t has been made and is over
RegularDone(t) ==
    LET c == threads[t].call
    IN  /\ threads[t].pc = "idle"
        /\ c.api = "regular"
        /\ c.enabled
        /\ c.ret # "func"

C2_Inv ==
    \A t \in Threads :
        LET c == threads[t].call
            ev == EventsOf(t)
        IN  /\ (c.api = "regular" /\ c.h # NoHandler) =>
                /\ c.op = "RegularLog"
                /\ c.header.level = LevelNames[c.level + 1]
                /\ \A k \in DOMAIN ev :
                        /\ ev[k].kind \in RegularKinds \cup {"conv"}
                        /\ ev[k].level = c.level
                        /\ ev[k].pnt.header = c.header
                /\ \A g \in Range(ChainOf(c.h)) :
                        CountOf(ev, g, RegularKinds) <= 1
            /\ RegularDone(t) =>
                /\ c.h # NoHandler
                /\ \A g \in Range(ChainOf(c.h)) :
                        CountOf(ev, g, RegularKinds) = 1

C2_Step ==
    \A r \in Receivers, level \in UserLevels :
        LET t == MainThread
            c == threads[t].call
        IN  level >= loggers[ParentOf(r[1], r[2])].level =>
              /\ (\E style \in {"immediate", "format"} :
                        Log(t, r[1], r[2], level, style))
                    => (threads'[t].pc = "hdr" /\ c.enabled' /\ c.level' = level)
              /\ LogP(t, r[1], r[2], level)
                    => /\ c.ret' = "func"
                       /\ threads'[t].pc = "idle"
                       /\ threads'[t].lazy =
                            [target |-> r[1], id |-> r[2], level |-> level]

\* C2: a call of an immediate or format-string method at a user level at or
\* above the threshold, or a call of the callable a lazy method returned,
\* calls RegularLog of the active handler once with that level and a header
\* whose level field is the level's name; the regular action of the active
\* handler and of every handler it wraps, at any depth, runs exactly once.
C2_EnabledLevelEmitsOnce == []C2_Inv /\ [][C2_Step]_vars

C2_Witness ==
    LET c == threads[MainThread].call
    IN  /\ RegularDone(MainThread)
        /\ c.style = "lazy"
        /\ c.level = WARN
        /\ loggers[1].level = WARN
        /\ c.h = 2
        /\ Len(EventsOf(MainThread)) = 4

-----------------------------------------------------------------------------
(* C3 *)

C3_Inv ==
    \A t \in Threads :
        LET c == threads[t].call
            ev == EventsOf(t)
            own == IF c.api = "panic" THEN "panic" ELSE "fatal"
            emitted == IF c.h = NoHandler THEN 0
                       ELSE IF handlers[c.h].kind = "tiny"
                       THEN Cardinality({k \in DOMAIN ev :
                                /\ ev[k].h = c.h
                                /\ ev[k].kind = "tiny"
                                /\ ev[k].level = c.level})
                       ELSE CountOf(ev, c.h, {own})
        IN  c.api \in {"panic", "fatal"} =>
                /\ c.enabled
                /\ c.level = IF c.api = "panic" THEN PANIC ELSE FATAL
                /\ threads[t].pc # "hdr" =>
                        /\ c.header.level = LevelNames[c.level + 1]
                        /\ c.header.stack = StackDump
                /\ c.h # NoHandler =>
                        c.op = IF c.api = "panic" THEN "PanicLog" ELSE "FatalLog"
                /\ emitted <= 1
                /\ Over(t) => (c.h # NoHandler /\ emitted = 1)

\* C3: Panic, Panicf, Fatal and Fatalf emit whatever the threshold is: the
\* call builds its header at level PANIC (FATAL), with the stack dump, and
\* calls PanicLog (FatalLog) of the active handler exactly once.
C3_PanicFatalAlwaysEmit == C3_Inv

C3_Witness ==
    LET c == threads[MainThread].call
    IN  /\ c.api = "panic"
        /\ threads[MainThread].pc = "idle"
        /\ loggers[1].level = FATAL
        /\ c.h = 2
        /\ CountOf(EventsOf(MainThread), 2, {"panic"}) = 1

-----------------------------------------------------------------------------
(* C4 *)

\* C4: whenever a handler runs its own action (regular, panic or fatal), in
\* RegularLog, RegularWriter, PanicLog or FatalLog, every handler it wraps,
\* at any depth, has already run its regular action in the same call: the
\* innermost effect comes first and the outermost last.
C4_DelegateFirstThenSelf ==
    \A i \in DOMAIN events :
        events[i].kind \in OwnKinds =>
            \A g \in Below(events[i].h) :
                HasRegular(g) =>
                    \E j \in 1..(i - 1) :
                        /\ events[j].h = g
                        /\ events[j].kind \in RegularKinds
                        /\ events[j].t = events[i].t

C4_Witness ==
    /\ threads[MainThread].call.op = "FatalLog"
    /\ \E i, j, k \in DOMAIN events :
        /\ i < j /\ j < k
        /\ events[i].h = 4 /\ events[i].kind = "tiny"
        /\ events[j].h = 3 /\ events[j].kind = "regular"
        /\ events[k].h = 2 /\ events[k].kind = "fatal"

-----------------------------------------------------------------------------
(* C5 *)

\* C5: in a Panic or Fatal call of a logger, every handler the active handler
\* wraps, at any depth, is entered through RegularWriter only: it runs its
\* regular action, never its Converter, its panic action or its fatal action,
\* and only the active handler returns or runs a finalizer.
C5_WrappedNeverGetsPanicLog ==
    \A t \in Threads :
        LET c == threads[t].call
            st == threads[t].stack
            ev == EventsOf(t)
        IN  (c.api \in {"panic", "fatal"} /\ c.h # NoHandler) =>
                /\ \A k \in DOMAIN st :
                        /\ k > 1 => (st[k].op = "RegularWriter" /\ st[k].fin = "nil")
                        /\ k = 1 => st[k].op \in {"PanicLog", "FatalLog"}
                /\ \A k \in DOMAIN ev :
                        ev[k].h # c.h =>
                            /\ ev[k].h \in Below(c.h)
                            /\ ev[k].kind \in RegularKinds
                            /\ ev[k].level = c.level

C5_Witness ==
    LET c == threads[MainThread].call
        ev == EventsOf(MainThread)
    IN  /\ c.api = "panic"
        /\ c.h = 2
        /\ threads[MainThread].pc = "idle"
        /\ CountOf(ev, 3, {"regular"}) = 1
        /\ CountOf(ev, 4, {"tiny"}) = 1
        /\ handlers[3].PanicLogFunc = "retfin"

-----------------------------------------------------------------------------
(* C6 *)

\* the sort of the own panic / fatal function of the handler a direct
\* PanicLog / FatalLog call was made on
OwnSort(c) ==
    IF c.op = "PanicLog" THEN handlers[c.h].PanicLogFunc
    ELSE handlers[c.h].FatalLogFunc

\* C6: in PanicLog and FatalLog of a composable handler the finalizer the own
\* panic / fatal action returns runs exactly once when it is not nil and never
\* otherwise; it runs after the message was formatted, after the wrapped
\* handlers' regular actions and after the own action, with no handler method
\* of the call still active below it; the payload of the panic action is the
\* rendering of the message parts, without the header.
C6_FinalizerRunsLastOnce ==
    \A t \in Threads :
        LET c == threads[t].call
            ev == EventsOf(t)
            fins == {k \in DOMAIN ev : ev[k].kind \in FinKinds}
            own == IF c.op = "PanicLog" THEN "panic" ELSE "fatal"
        IN  (c.target = "handler" /\ c.op \in {"PanicLog", "FatalLog"}
                /\ handlers[c.h].kind = "func") =>
                /\ Cardinality(fins) <= 1
                /\ OwnSort(c) \in {"absent", "retnil"} => fins = {}
                /\ (OwnSort(c) \in {"retfin", "native"} /\ Over(t)) => fins # {}
                /\ \A k \in fins :
                        /\ k = Len(ev)
                        /\ ev[k].h = c.h
                        /\ Depth(t) <= 1
                        /\ handlers[c.h].Converter =>
                                \E j \in 1..(k - 1) :
                                    ev[j].h = c.h /\ ev[j].kind = "conv"
                        /\ \E j \in 1..(k - 1) :
                                /\ ev[j].h = c.h
                                /\ ev[j].kind = own
                                /\ ev[j].pnt.by = c.h
                        /\ \A g \in Below(c.h) :
                                HasRegular(g) =>
                                    \E j \in 1..(k - 1) :
                                        ev[j].h = g /\ ev[j].kind \in RegularKinds
                /\ \A k \in DOMAIN ev :
                        ev[k].kind = "panic" =>
                            /\ ev[k].info = "m 1\n"
                            /\ Written(ev[k].pnt) =
                                    "12:30 [PANIC], direct - m 1\n"

C6_Witness ==
    LET c == threads[MainThread].call
    IN  /\ c.target = "handler"
        /\ c.op = "PanicLog"
        /\ c.h = 2
        /\ handlers[2].PanicLogFunc = "retfin"
        /\ handlers[2].Wrapper = 3
        /\ handlers[2].Converter
        /\ threads[MainThread].pc = "idle"
        /\ Len(events) >= 4
        /\ events[Len(events)].kind = "fin"

-----------------------------------------------------------------------------
(* C7 *)

\* a termination action was taken in the call of thread t
Terminated(t) ==
    \E k \in DOMAIN events :
        events[k].t = t /\ events[k].kind \in {"terminate", "exit"}

\* C7 as stated: once a Fatal or Fatalf call is over, a termination action
\* has been taken, whatever the active handler is.
C7_FatalAlwaysTerminates ==
    \A t \in Threads :
        LET c == threads[t].call
        IN  (c.api = "fatal" /\ c.h # NoHandler /\ Over(t)) => Terminated(t)

\* C7, amended: the termination action of a Fatal or Fatalf call is taken by
\* the finalizer of the active handler's fatal action and by nothing else.
\* With the native handler the termination function runs once, after the
\* record was written; with an active handler that supplies no finalizer (a
\* fatal action that returns nil, or the single-function handler) no
\* termination action is taken and the call returns to its caller.
C7_FatalTerminatesThroughFinalizer ==
    \A t \in Threads :
        LET c == threads[t].call
            ev == EventsOf(t)
            terms == {k \in DOMAIN ev : ev[k].kind \in {"terminate", "exit"}}
        IN  (c.api = "fatal" /\ c.h # NoHandler) =>
                /\ Cardinality(terms) <= 1
                /\ \A k \in terms :
                        /\ handlers[c.h].kind = "func"
                        /\ handlers[c.h].FatalLogFunc = "native"
                        /\ ev[k].h = c.h
                        /\ k = Len(ev)
                        /\ \E j \in 1..(k - 1) :
                                ev[j].h = c.h /\ ev[j].kind = "fatal"
                /\ (exited = "exit") <=> (\E k \in terms : ev[k].kind = "exit")
                /\ Over(t) =>
                        IF handlers[c.h].kind = "func"
                            /\ handlers[c.h].FatalLogFunc = "native"
                        THEN Terminated(t)
                        ELSE /\ ~Terminated(t)
                             /\ exited = "no"
                             /\ threads[t].pc = "idle"

C7_Witness ==
    LET c == threads[MainThread].call
    IN  /\ c.api = "fatal"
        /\ c.h = 4
        /\ threads[MainThread].pc = "idle"
        /\ CountOf(EventsOf(MainThread), 4, {"tiny"}) = 1
        /\ ~Terminated(MainThread)

C7_WitnessNative ==
    LET c == threads[MainThread].call
    IN  /\ c.api = "fatal"
        /\ c.h = NativeId
        /\ exited = "exit"

-----------------------------------------------------------------------------
(* C8 *)

\* the statements of a method between the acquisition of the Lock and its
\* release: formatting, delegation, the own action, and the release itself
BodyPcs == {"format", "delegate", "self", "unlock"}

\* thread t is inside the body of a method of handler h
InBody(t, h) ==
    \E k \in DOMAIN threads[t].stack :
        /\ threads[t].stack[k].h = h
        /\ threads[t].stack[k].pc \in BodyPcs

Locked == {h \in HandlerIds : handlers[h].kind = "func" /\ handlers[h].Lock # NoLock}

\* C8, the state part: a method of a handler with a Lock holds the lock
\* through formatting, delegation and its own action; no two threads are in
\* the body of methods of the same locked handler; and in the record of
\* effects no effect of another call, at the handler or below it, falls
\* between the wrapped effect and the own effect of one call.
C8_Inv ==
    \A h \in Locked :
        /\ \A t \in Threads : InBody(t, h) => lockHeld[handlers[h].Lock]
        /\ \A t, u \in Threads : (InBody(t, h) /\ InBody(u, h)) => t = u
        /\ \A i, j, k \in DOMAIN events :
                (/\ i < j /\ j < k
                 /\ events[i].t = events[k].t
                 /\ events[i].h \in Below(h)
                 /\ events[i].kind \in RegularKinds
                 /\ events[k].h = h
                 /\ events[k].kind \in OwnKinds
                 /\ events[j].h \in ({h} \cup Below(h))
                 /\ events[j].kind \in OwnKinds)
                    => events[j].t = events[i].t

\* C8, the step part: an effect at a locked handler or below it is added
\* only by the thread that is in the body of the locked handler's method, so
\* the effects are ordered as the lock was acquired.
C8_Step ==
    \A h \in Locked :
        (/\ Len(events') = Len(events) + 1
         /\ events'[Len(events')].h \in ({h} \cup Below(h))
         /\ events'[Len(events')].kind \in OwnKinds)
            => InBody(events'[Len(events')].t, h)

C8_LockHeldForWholeBody == []C8_Inv /\ [][C8_Step]_vars

\* two threads are in calls through the locked handler 2 at once: one is in
\* the body, after the wrapped effect and before its own, the other waits
C8_Witness ==
    \E t, u \in Threads :
        /\ t # u
        /\ handlers[2].Lock # NoLock
        /\ InBody(t, 2)
        /\ threads[t].stack[1].pc = "self"
        /\ CountOf(EventsOf(t), 3, {"regular"}) = 1
        /\ Depth(u) = 1
        /\ threads[u].stack[1].h = 2
        /\ threads[u].stack[1].pc = "enter"
        /\ threads[u].call.op = "PanicLog"

\* without a Lock on handler 2 the effects of two calls do interleave
C8_UnlockedInterleaves ==
    \E i, j, k \in DOMAIN events :
        /\ i < j /\ j < k
        /\ handlers[2].Lock = NoLock
        /\ events[i].t = events[k].t
        /\ events[i].h = 3
        /\ events[k].h = 2
        /\ events[k].kind \in OwnKinds
        /\ events[j].h = 2
        /\ events[j].kind \in OwnKinds
        /\ events[j].t # events[i].t

-----------------------------------------------------------------------------
(* C9 *)

\* C9: the loggers made by New and Derive share no mutable state.  A step
\* of SetLevel, SetCallTraceLevel, SetTimeFormat, SetLogHandler or
\* WrapLogHandler on one logger leaves the threshold, the call-trace
\* threshold, the time format, the handler reference and the header formatter
\* of every other logger as they were, whether the other is the parent or the
\* derived one; Derive changes no logger that exists; and no step changes the
\* handler objects.
C9_Step ==
    /\ handlers' = handlers
    /\ Len(loggers') >= Len(loggers)
    /\ Len(loggers') > Len(loggers) =>
            \A j \in DOMAIN loggers : loggers'[j] = loggers[j]
    /\ \A i \in DOMAIN loggers :
            (\E j \in DOMAIN loggers : j # i /\ loggers'[j] # loggers[j]) =>
                /\ \A level \in {INFO, ERROR} : ~SetLevel(i, level)
                /\ \A level \in {DEBUG, WARN} : ~SetCallTraceLevel(i, level)
                /\ \A format \in {"15:04"} : ~SetTimeFormat(i, format)
                /\ \A handler \in {NoHandler, 2} : ~SetLogHandler(i, handler)
                /\ \A wrapper \in Wrappers : ~WrapLogHandler(i, wrapper)

C9_DeriveIsIndependent == [][C9_Step]_vars

\* a parent and the logger derived from it that differ in every setting
C9_Witness ==
    /\ Len(loggers) = 2
    /\ loggers[1].level # loggers[2].level
    /\ loggers[1].levelct # loggers[2].levelct
    /\ loggers[1].timefmt # loggers[2].timefmt
    /\ loggers[1].logHandler # loggers[2].logHandler
    /\ loggers[1].fmtHeader.levelcalltrace = WARN
    /\ loggers[2].fmtHeader.levelcalltrace = DEBUG

-----------------------------------------------------------------------------
(* C10 *)

\* C10 as stated: Derive gives the new logger the parent's handler,
\* threshold, time format and call-trace threshold: the stored call-trace
\* threshold is the parent's, and at every level the new logger's header
\* carries call-site info exactly when the parent's does.
C10_Step ==
    \A i \in DOMAIN loggers :
        (\E pfx \in {"", "d"} : Derive(i, pfx)) =>
            LET p == loggers[i]
                d == loggers'[Len(loggers')]
            IN  /\ d.logHandler = p.logHandler
                /\ d.level = p.level
                /\ d.timefmt = p.timefmt
                /\ d.levelct = p.levelct
                /\ \A L \in Levels :
                        FmtHeader(d.fmtHeader, L, NoTid).stack =
                            FmtHeader(p.fmtHeader, L, NoTid).stack

C10_DeriveCopiesCallTraceLevel == [][C10_Step]_vars

\* the logger derived from a logger that New made with LevelWithTrace = WARN
\* and that was never reconfigured writes call-site info at INFO
C10_Witness ==
    /\ Len(loggers) = 2
    /\ loggers[1] = New("app", LogConfig(2, INFO, WARN, ""))
    /\ loggers[2] = DeriveLogger(loggers[1], "d")
    /\ FmtHeader(loggers[1].fmtHeader, INFO, NoTid).stack = ""
    /\ FmtHeader(loggers[2].fmtHeader, INFO, NoTid).stack = CallSite

-----------------------------------------------------------------------------
(* C11 *)

\* the names made from the names in S by one Derive with a non-empty suffix
OneMore(S) == S \cup {s \o "." \o x : s \in S, x \in Suffixes \ {""}}

\* C11, the state part: the name of every logger is the name New gave the
\* first logger, followed by one "." and one non-empty suffix for each
\* Derive with a non-empty suffix on the way to it, and by nothing else.
C11_Inv ==
    \A i \in DOMAIN loggers :
        /\ loggers[i].prefix \in OneMore(OneMore(OneMore(OneMore({"*", "app"}))))
        /\ loggers[i].fmtHeader.prefix = loggers[i].prefix

\* C11, the step part: Derive(suffix) on a logger named n makes a logger
\* named n.suffix when the suffix is not empty and named n when it is empty,
\* whether n is the name New gave or itself the name of a derived logger; the
\* headers of the new logger carry that name.
C11_Step ==
    \A i \in DOMAIN loggers, pfx \in Suffixes :
        Derive(i, pfx) =>
            LET p == loggers[i]
                d == loggers'[Len(loggers')]
            IN  /\ pfx = "" => d.prefix = p.prefix
                /\ pfx # "" => d.prefix = p.prefix \o "." \o pfx
                /\ FmtHeader(d.fmtHeader, INFO, NoTid).prefix = d.prefix

C11_DerivedNameComposes == []C11_Inv /\ [][C11_Step]_vars

\* p, p.Derive(""), p.Derive("a") and p.Derive("a").Derive("b")
C11_Witness ==
    /\ Len(loggers) = 4
    /\ loggers[1].prefix = "app"
    /\ loggers[2].prefix = "app"
    /\ loggers[3].prefix = "app.a"
    /\ loggers[4].prefix = "app.a.b"
    /\ FmtHeader(loggers[4].fmtHeader, INFO, NoTid).prefix = "app.a.b"

-----------------------------------------------------------------------------
(* C12 *)

\* C12, the state part: the header of every call made through a trace logger
\* carries the identity of that trace logger, and it is that header the
\* handlers are given.
C12_Inv ==
    \A t \in Threads :
        LET c == threads[t].call
            ev == EventsOf(t)
        IN  (c.target = "trace" /\ c.h # NoHandler) =>
                /\ c.header.trace = TidString(traces[c.id].tid)
                /\ c.header.trace # ""
                /\ \A k \in DOMAIN ev : ev[k].pnt.header = c.header

\* C12, the step part: a call through a trace logger is let through exactly
\* when its level is at or above the threshold its owner has when the call is
\* made, takes the header from the formatter its owner has when the header is
\* built, and goes to the handler its owner has when it is dispatched.
C12_Step ==
    \A t \in Threads :
        LET c == threads[t].call
            d == threads'[t].call
        IN  /\ \A k \in DOMAIN traces, level \in UserLevels :
                    Log(t, "trace", k, level, "immediate") =>
                        (threads'[t].pc = "hdr"
                            <=> loggers[traces[k].parent].level <= level)
            /\ (c.target = "trace" /\ BuildHeader(t)) =>
                    /\ d.header.time =
                            TimeNowFormat(loggers[traces[c.id].parent].timefmt)
                    /\ d.header.prefix = loggers[traces[c.id].parent].prefix
                    /\ d.header.stack =
                            FmtHeader(loggers[traces[c.id].parent].fmtHeader,
                                      c.level, NoTid).stack
            /\ (c.target = "trace" /\ Dispatch(t)) =>
                    d.h = loggers[traces[c.id].parent].logHandler

C12_TraceReadsLiveConfig == []C12_Inv /\ [][C12_Step]_vars

\* a call through the trace logger made right after New, in which the time
\* format and the handler are not those New was given
C12_Witness ==
    LET c == threads[MainThread].call
    IN  /\ c.target = "trace"
        /\ c.id = 1
        /\ threads[MainThread].pc = "idle"
        /\ c.h = NativeId
        /\ c.header.time = "12:30"
        /\ c.header.trace = "<TR:uuid-1>"
        /\ CountOf(EventsOf(MainThread), NativeId, {"regular"}) = 1

\* a call through that trace logger that the threshold set later filters out
C12_WitnessThreshold ==
    LET c == threads[MainThread].call
    IN  /\ c.target = "trace"
        /\ c.id = 1
        /\ c.level = INFO
        /\ ~c.enabled
        /\ Quiet(MainThread)

-----------------------------------------------------------------------------
(* C13 *)

\* (*traceLogger).TraceID and TraceName
TraceID(k) == traces[k].tid.id
TraceName(k) == traces[k].tid.name

\* C13: no step changes what TraceID and TraceName of a trace logger return,
\* be it a logging call, a setter of its owner or another Trace, and
\* TraceName of the trace logger Trace(name) makes is name.
C13_Step ==
    /\ \A k \in DOMAIN traces :
            /\ k \in DOMAIN traces'
            /\ traces'[k].tid.id = TraceID(k)
            /\ traces'[k].tid.name = TraceName(k)
            /\ traces'[k].parent = traces[k].parent
    /\ \A i \in DOMAIN loggers, name \in {"", "TR"}, ok \in BOOLEAN :
            Trace(i, name, ok) => traces'[Len(traces')].tid.name = name

C13_TraceIdentityImmutable == [][C13_Step]_vars

\* the first trace logger after a call through it, a change of its owner's
\* handler and time format, and another Trace
C13_Witness ==
    /\ Len(traces) = 2
    /\ TraceName(1) = "TR"
    /\ TraceID(1) = "uuid-1"
    /\ TraceName(2) = ""
    /\ loggers[1].logHandler = NativeId
    /\ loggers[1].timefmt = "15:04"
    /\ threads[MainThread].call.target = "trace"
    /\ threads[MainThread].call.id = 1
    /\ threads[MainThread].call.h = 4
    /\ threads[MainThread].pc = "idle"

-----------------------------------------------------------------------------
(* C14 *)

\* C14 as stated: no two trace loggers have equal ids, whether the id
\* generator worked or reported an error.
C14_TraceIdsDistinct ==
    \A j, k \in DOMAIN traces : j # k => TraceID(j) # TraceID(k)

\* what the code gives: two trace loggers have equal ids only when the id
\* generator failed for both, and then both have the zero UUID
C14_DistinctUnlessGeneratorFails ==
    \A j, k \in DOMAIN traces :
        (j # k /\ TraceID(j) = TraceID(k)) => TraceID(j) = NilUUID

\* two Trace calls with different names in which uuid.NewV7 failed
C14_Witness ==
    /\ Len(traces) = 2
    /\ TraceName(1) # TraceName(2)
    /\ TraceID(1) = NilUUID
    /\ TraceID(2) = NilUUID

-----------------------------------------------------------------------------
(* C15 *)

\* C15 as stated: WrapLogHandler(fn) makes fn(current handler) the active
\* handler, NativeLogHandler when fn returns nil, and leaves the active
\* handler reference as it is when fn returns its argument.
C15_Step ==
    \A i \in DOMAIN loggers, wrapper \in Wrappers :
        WrapLogHandler(i, wrapper) =>
            LET old == loggers[i].logHandler
                new == loggers'[i].logHandler
            IN  /\ wrapper = "nil" => new = NativeId
                /\ wrapper = "native" => new = NativeId
                /\ wrapper = "chain" => new = 2
                /\ wrapper = "same" => new = old

C15_WrapSetsHandler == [][C15_Step]_vars

\* the same for a logger whose current handler is not nil, which is what the
\* code does
C15_StepUsable ==
    \A i \in DOMAIN loggers, wrapper \in Wrappers :
        (loggers[i].logHandler # NoHandler /\ WrapLogHandler(i, wrapper)) =>
            LET old == loggers[i].logHandler
                new == loggers'[i].logHandler
            IN  /\ wrapper = "nil" => new = NativeId
                /\ wrapper = "native" => new = NativeId
                /\ wrapper = "chain" => new = 2
                /\ wrapper = "same" => new = old

C15_WrapSetsUsableHandler == [][C15_StepUsable]_vars

\* a logger whose handler SetLogHandler(nil) made nil, and one on which the
\* identity wrapper was applied after that
C15_Witness ==
    /\ Len(loggers) = 2
    /\ loggers[1].logHandler = NoHandler
    /\ loggers[2].logHandler = NativeId
    /\ loggers[2].prefix = "app.d"

-----------------------------------------------------------------------------
(* C16 *)

\* C16 as stated: the active handler of a logger is never nil.
C16_HandlerNeverNil ==
    \A i \in DOMAIN loggers : loggers[i].logHandler # NoHandler

\* what the code keeps: New and WrapLogHandler never leave a nil handler
C16_Step ==
    \A i \in DOMAIN loggers, wrapper \in Wrappers :
        WrapLogHandler(i, wrapper) => loggers'[i].logHandler # NoHandler

C16_WrapNeverLeavesNil == [][C16_Step]_vars

\* SetLogHandler(nil) on a logger, and a logger derived from it afterwards
C16_Witness ==
    /\ Len(loggers) = 2
    /\ loggers[1].logHandler = NoHandler
    /\ loggers[2].logHandler = NoHandler

\* a logging call on a logger with a nil handler ends in a run-time panic
C16_NilHandlerCall ==
    /\ threads[MainThread].pc = "panicked"
    /\ threads[MainThread].call.h = NoHandler
    /\ threads[MainThread].call.enabled
    /\ loggers[1].logHandler = NoHandler
    /\ EventsOf(MainThread) = <<>>

-----------------------------------------------------------------------------
(* C17 *)

\* thread u is at an assignment of l.logHandler of logger i
WritingHandler(u, i) ==
    /\ threads[u].set.logger = i
    /\ threads[u].set.api \in HandlerSetters
    /\ threads[u].pc \in IF threads[u].set.api = "WrapLogHandler"
                         THEN {"wrap", "fix"} ELSE {"write"}

\* C17 as stated, for the handler: a logging call reads the active handler
\* atomically or under the logger's lock, so no thread is at its read of
\* l.logHandler while another thread is inside SetLogHandler or
\* WrapLogHandler at an assignment of the field.
C17_HandlerReadSynchronized ==
    \A t, u \in Threads :
        LET c == threads[t].call
        IN  ~(/\ t # u
              /\ threads[t].pc = "disp"
              /\ WritingHandler(u, ParentOf(c.target, c.id)))

\* a call that found a nil handler although no setter was given nil: it read
\* the field between the two assignments of WrapLogHandler
C17_Witness ==
    \E t \in Threads :
        /\ threads[t].pc = "panicked"
        /\ threads[t].call.h = NoHandler
        /\ loggers[1].logHandler = NativeId

\* a call that read the field while it was assigned and got a torn value
C17_WitnessTorn ==
    /\ exited = "fault"
    /\ \E t, u \in Threads : threads[t].pc = "fault" /\ WritingHandler(u, 1)

-----------------------------------------------------------------------------
(* C18 *)

\* C18, the state part: at most one thread is between l.mtx.Lock() and
\* l.mtx.Unlock() of a logger, and whenever none is, the formatter of the
\* logger is the one made from its time format, name and call-trace
\* threshold, or still the one New made (New keeps LevelWithTrace in the
\* formatter only, see C10).
C18_Inv ==
    /\ \A t, u \in Threads :
            (/\ threads[t].pc \in MtxPcs
             /\ threads[u].pc \in MtxPcs
             /\ threads[t].set.logger = threads[u].set.logger) => t = u
    /\ \A i \in DOMAIN loggers :
            LET l == loggers[i]
            IN  ~MtxHeld(i) =>
                    \/ l.fmtHeader =
                            getHeaderFromatter(l.timefmt, l.prefix, l.levelct)
                    \/ /\ l.levelct = DEBUG
                       /\ l.fmtHeader =
                            getHeaderFromatter(l.timefmt, l.prefix, WARN)

\* C18, the step part: a formatter that is stored is made from the time
\* format, the name and the call-trace threshold the logger has at that
\* moment, and a logging call takes the formatter only while no setter is
\* between its Lock and its Unlock, and builds its whole header from it.
C18_Step ==
    /\ \A i \in DOMAIN loggers :
            loggers'[i].fmtHeader # loggers[i].fmtHeader =>
                loggers'[i].fmtHeader =
                    getHeaderFromatter(loggers'[i].timefmt, loggers'[i].prefix,
                                       loggers'[i].levelct)
    /\ \A t \in Threads :
            LET c == threads[t].call
                i == ParentOf(c.target, c.id)
            IN  BuildHeader(t) =>
                    /\ ~MtxHeld(i)
                    /\ threads'[t].call.header =
                            FmtHeader(loggers[i].fmtHeader, c.level, NoTid)

C18_FormatterReplacedAtomically == []C18_Inv /\ [][C18_Step]_vars

\* two setters at once: SetCallTraceLevel is about to store its formatter
\* and SetTimeFormat, called after a logging call that followed an earlier
\* SetTimeFormat, waits for the lock
C18_Witness ==
    \E u \in Threads :
        /\ u # MainThread
        /\ threads[u].pc = "store"
        /\ threads[u].set.api = "SetCallTraceLevel"
        /\ threads[MainThread].pc = "mtx"
        /\ threads[MainThread].set.api = "SetTimeFormat"
        /\ threads[MainThread].call.header.time = "12:30"
        /\ loggers[1].levelct = ERROR
        /\ loggers[1].fmtHeader.levelcalltrace # ERROR

\* a logging call waits for its formatter while a setter is at work
C18_ReaderWaits ==
    /\ threads[MainThread].pc = "hdr"
    /\ MtxHeld(1)
    /\ loggers[1].timefmt # loggers[1].fmtHeader.timefmt

\* Headers at every level against every threshold: one logger with the
\* native or a tiny handler, each LevelWithTrace, both time layouts, and its trace
\* loggers.
InitHeader ==
    /\ InitCommon
    /\ handlers = TestHeap
    /\ \E handler \in {NoHandler, 4}, levelWithTrace \in Levels,
          timeFormat \in {"", "15:04"} :
            loggers = <<New("app", LogConfig(handler, DEBUG, levelWithTrace,
                                             timeFormat))>>
    /\ sysTerminate = "hook"

NextHeader ==
    \/ \E name \in {"", "TR"} :
            Len(traces) < MaxTraces /\ Trace(1, name, TRUE)
    \/ \E r \in Receivers, level \in UserLevels :
            Log(MainThread, r[1], r[2], level, "immediate")
    \/ \E api \in {"panic", "fatal"} :
            PanicFatal(MainThread, 1, api, "immediate")
    \/ BuildHeader(MainThread)
    \/ Dispatch(MainThread)
    \/ HandlerStep(MainThread)

SpecHeader == InitHeader /\ [][NextHeader]_vars

\* One file sink, its callers, the timer and the owner of the context.
InitFile ==
    /\ InitCommon
    /\ handlers = TestHeap
    /\ loggers = <<>>
    /\ sysTerminate = "hook"

NextFile ==
    \/ \E t \in Threads : FileHandlerCall(t)
    \/ \E t \in Threads : FileHandlerStep(t)
    \/ Cancel
    \/ TimerFires
    \/ FileHolderStep

SpecFile == InitFile /\ [][NextFile]_vars

\* the goroutines are scheduled: the file holder and every caller inside
\* handler keep running
SpecFileFair ==
    /\ SpecFile
    /\ WF_vars(FileHolderStep)
    /\ \A t \in Threads : WF_vars(FileHandlerStep(t))

\* One thread calls the methods of a handler whose wrapped handler fails.
InitFail ==
    /\ InitCommon
    /\ handlers \in FailHeaps
    /\ loggers = <<>>
    /\ sysTerminate = "hook"

NextFail ==
    \/ \E h \in {2, 3}, op \in HandlerOps :
            HandlerCall(MainThread, h, op, DelegateLevel(op, INFO))
    \/ Enter(MainThread)
    \/ Format(MainThread)
    \/ Delegate(MainThread)
    \/ Self(MainThread)
    \/ Unlock(MainThread)
    \/ Finalize(MainThread)
    \/ TinyPanics(MainThread)
    \/ SelfPanics(MainThread)
    \/ Recover(MainThread)

SpecFail == InitFail /\ [][NextFail]_vars

\* sysTerminate = fn, as TestLogger does between two calls
SetSysTerminate(fn) ==
    /\ exited = "no"
    /\ \A t \in Threads : threads[t].pc = "idle"
    /\ sysTerminate # fn
    /\ sysTerminate' = fn
    /\ UNCHANGED <<file, handlers, lockHeld, loggers, traces, nextUUID,
                   threads, events, exited>>

\* One thread calls the methods of NativeLogHandler, made while sysTerminate
\* was os.Exit, and replaces sysTerminate between calls.
InitNative ==
    /\ InitCommon
    /\ handlers = TestHeap
    /\ loggers = <<>>
    /\ sysTerminate = "exit"

NextNative ==
    \/ \E fn \in {"exit", "hook"} : SetSysTerminate(fn)
    \/ \E op \in HandlerOps, level \in UserLevels :
            HandlerCall(MainThread, NativeId, op, DelegateLevel(op, level))
    \/ Enter(MainThread)
    \/ Format(MainThread)
    \/ Delegate(MainThread)
    \/ Self(MainThread)
    \/ Unlock(MainThread)
    \/ Finalize(MainThread)
    \/ Recover(MainThread)
    \/ Crash(MainThread)

SpecNative == InitNative /\ [][NextNative]_vars

\* One thread takes callables from the lazy methods of a logger and of its
\* trace logger and calls them, while the threshold and the handler are set.
InitLazy ==
    /\ InitCommon
    /\ handlers = TestHeap
    /\ loggers = <<New("app", LogConfig(4, INFO, FATAL, ""))>>
    /\ sysTerminate = "hook"

NextLazy ==
    \/ \E level \in {INFO, ERROR} : SetLevel(1, level)
    \/ \E handler \in {NativeId, 4} : SetLogHandler(1, handler)
    \/ Len(traces) < MaxTraces /\ Trace(1, "TR", TRUE)
    \/ \E r \in Receivers, level \in {INFO, WARN} :
            LogP(MainThread, r[1], r[2], level)
    \/ CallP(MainThread)
    \/ BuildHeader(MainThread)
    \/ Dispatch(MainThread)
    \/ Enter(MainThread)
    \/ Format(MainThread)
    \/ Delegate(MainThread)
    \/ Self(MainThread)
    \/ Unlock(MainThread)
    \/ Tiny(MainThread)

SpecLazy == InitLazy /\ [][NextLazy]_vars

\* and the ticks keep coming: while the goroutine waits in select and the
\* context is not cancelled, the two seconds pass
SpecFileTicks == SpecFileFair /\ WF_vars(TimerFires)

-----------------------------------------------------------------------------
(* C19 *)

\* the logger New makes from the empty LogConfig
EmptyConfigLogger == New("TestPrefix", LogConfig(NoHandler, DEBUG, DEBUG, ""))

\* C19 as stated: the headers of the DEBUG, INFO, WARN and ERROR records of a
\* logger made by New with a config that sets no LevelWithTrace carry no
\* call-site info.
C19_NoCallSiteByDefault ==
    \A t \in Threads :
        LET c == threads[t].call
        IN  (/\ c.target = "logger"
             /\ c.api = "regular"
             /\ c.h # NoHandler
             /\ loggers[c.id].fmtHeader = EmptyConfigLogger.fmtHeader)
                => c.header.stack = ""

\* a DEBUG record of the logger New made from the empty LogConfig, written by
\* the native handler with call-site info in its header
C19_Witness ==
    LET c == threads[MainThread].call
    IN  /\ loggers[1] = EmptyConfigLogger
        /\ c.target = "logger"
        /\ c.api = "regular"
        /\ c.level = DEBUG
        /\ c.h = NativeId
        /\ threads[MainThread].pc = "idle"
        /\ c.header.stack = CallSite
        /\ CountOf(EventsOf(MainThread), NativeId, {"regular"}) = 1

-----------------------------------------------------------------------------
(* C20 *)

\* the calls whose header has been built
HeaderBuilt(t) ==
    /\ threads[t].call.target \in {"logger", "trace"}
    /\ threads[t].call.enabled
    /\ threads[t].call.h # NoHandler

\* C20: a header built at level L against threshold T carries the stack dump
\* when L is PANIC or FATAL whatever T is, the single call site when L is a
\* lower level and L >= T, and neither when L < T; it renders as the time,
\* the level name in brackets, the name prefix, the trace rendering and then
\* the call-site or stack part, in that order.
C20_HeaderParts ==
    \A t \in Threads :
        LET c == threads[t].call
            l == loggers[ParentOf(c.target, c.id)]
            T == l.fmtHeader.levelcalltrace
            L == c.level
        IN  HeaderBuilt(t) =>
                /\ L \in {PANIC, FATAL} => c.header.stack = StackDump
                /\ (L \in UserLevels /\ L >= T) => c.header.stack = CallSite
                /\ (L \in UserLevels /\ L < T) => c.header.stack = ""
                /\ c.header.level = LevelString(L)
                /\ c.header.prefix = l.prefix
                /\ c.header.trace = TidString(TidOf(c.target, c.id))
                /\ RenderHeader(c.header) =
                        TimeNowFormat(l.timefmt) \o " [" \o LevelString(L)
                            \o "], " \o l.prefix
                            \o TidString(TidOf(c.target, c.id))
                            \o c.header.stack \o " - "

\* a WARN record through a named trace logger with the threshold at WARN: the
\* level equals the threshold and the header carries the call site after the
\* level name, the prefix and the trace rendering
C20_Witness ==
    LET c == threads[MainThread].call
    IN  /\ HeaderBuilt(MainThread)
        /\ c.target = "trace"
        /\ c.level = WARN
        /\ loggers[1].fmtHeader.levelcalltrace = WARN
        /\ threads[MainThread].pc = "idle"
        /\ RenderHeader(c.header)
             = "12:30 [WARN], app<TR:uuid-1> main.go:1(main) - "

\* a PANIC record with the threshold at FATAL carries the stack dump
C20_WitnessDump ==
    LET c == threads[MainThread].call
    IN  /\ HeaderBuilt(MainThread)
        /\ c.level = PANIC
        /\ loggers[1].fmtHeader.levelcalltrace = FATAL
        /\ c.header.stack = StackDump

\* an INFO record with the threshold at WARN carries neither
C20_WitnessBelow ==
    LET c == threads[MainThread].call
    IN  /\ HeaderBuilt(MainThread)
        /\ c.level = INFO
        /\ loggers[1].fmtHeader.levelcalltrace = WARN
        /\ RenderHeader(c.header) = "12:30 [INFO], app - "

-----------------------------------------------------------------------------
(* C21 *)

\* the names and configs the first logger is made from
NewNames == {"", "app"}
NewConfigs ==
    {LogConfig(NoHandler, INFO, levelWithTrace, "") :
        levelWithTrace \in {DEBUG, WARN}}

\* the logger the defaults describe: "*" for the empty name, the native
\* handler for nil, the default layout for the empty one, every given option
\* kept, and the configured LevelWithTrace as the stored threshold
DefaultedLogger(name, config) ==
    [logHandler |-> IF config.Handler = NoHandler THEN NativeId
                    ELSE config.Handler,
     level |-> config.Level,
     levelct |-> config.LevelWithTrace,
     prefix |-> IF name = "" THEN "*" ELSE name,
     timefmt |-> IF config.TimeFormat = "" THEN "2006-01-02 15:04:05.000"
                 ELSE config.TimeFormat,
     fmtHeader |-> [timefmt |-> IF config.TimeFormat = ""
                                THEN "2006-01-02 15:04:05.000"
                                ELSE config.TimeFormat,
                    prefix |-> IF name = "" THEN "*" ELSE name,
                    levelcalltrace |-> config.LevelWithTrace]]

\* C21 as stated: the logger New returns has each default applied, each
\* given option stored unchanged, and its stored call-trace threshold equal
\* to the configured LevelWithTrace.
C21_NewAppliesDefaults ==
    \E name \in NewNames, config \in NewConfigs :
        /\ loggers[1].fmtHeader.levelcalltrace = config.LevelWithTrace
        /\ loggers[1].prefix = DefaultedLogger(name, config).prefix
        /\ loggers[1] = DefaultedLogger(name, config)

\* what holds: every default and every stored option except the stored
\* threshold, which New leaves at zero
C21_DefaultsButThreshold ==
    \E name \in NewNames, config \in NewConfigs :
        /\ loggers[1] = [DefaultedLogger(name, config) EXCEPT !.levelct = 0]
        /\ loggers[1].fmtHeader.levelcalltrace = config.LevelWithTrace

\* New("", LogConfig{LevelWithTrace: WARN}): the defaults are applied, the
\* formatter works with WARN and the stored threshold is DEBUG
C21_Witness ==
    /\ loggers[1].prefix = "*"
    /\ loggers[1].logHandler = NativeId
    /\ loggers[1].timefmt = "2006-01-02 15:04:05.000"
    /\ loggers[1].level = INFO
    /\ loggers[1].fmtHeader.levelcalltrace = WARN
    /\ loggers[1].levelct = DEBUG
    /\ Len(loggers) > 1

-----------------------------------------------------------------------------
(* C22 *)

\* a step that writes a record to the file
FileWritten == file'.written # file.written

\* a step that is an fp.Sync
FileSynced == file'.syncs # file.syncs

C22_Step == file.closes > 0 => ~FileWritten /\ ~FileSynced

\* C22: once the file has been closed no step writes to it and no flush
\* syncs it: a handler invocation after the close finds fp nil and returns
\* without calling the writer.
C22_NoWriteAfterClose == [][C22_Step]_vars

\* the file is closed, and a handler invocation begun after that has come to
\* its return without writing
C22_Witness ==
    \E t \in Threads :
        /\ file.closes = 1
        /\ file.fp = "nil"
        /\ file.holder = "stopped"
        /\ file.after[t]
        /\ file.pc[t] = "runlock"
        /\ ~file.wrote[t]
        /\ file.written > 0

-----------------------------------------------------------------------------
(* C23 *)

C23_Inv ==
    /\ file.closes <= 1
    /\ file.closes = 1 => file.done

C23_Step ==
    file.holder = "stopped" =>
        /\ file'.holder = "stopped"
        /\ file'.closes = file.closes
        /\ file'.synced = file.synced
        /\ file'.lastflush = file.lastflush
        /\ file'.fp = file.fp

\* C23: the file is closed at most once and only after the cancellation
\* signal has fired; once it has fired the file holder goroutine comes to
\* close the file and stops, and from then on it closes and syncs nothing.
C23_ClosedOnceThenStops ==
    /\ []C23_Inv
    /\ [][C23_Step]_vars
    /\ file.done ~> (file.closes = 1 /\ file.holder = "stopped")

\* the context was cancelled while a caller was writing and after a periodic
\* flush; the file has been closed once and the goroutine has stopped
C23_Witness ==
    /\ file.done
    /\ file.closes = 1
    /\ file.holder = "stopped"
    /\ file.synced > 0
    /\ file.written > file.synced
    /\ \E t \in Threads : file.wrote[t] /\ ~file.after[t]

-----------------------------------------------------------------------------
(* C24 *)

\* C24 as stated: a handler invocation that begins after the cancellation
\* signal has fired never writes to the file.
C24_NoNewWriteAfterCancel ==
    \A t \in Threads : file.after[t] => ~file.wrote[t]

\* what holds: a handler invocation writes only while the file is open,
\* whether or not the signal has fired
C24_WritesOnlyWhileOpen ==
    [][FileWritten => file.fp = "open" /\ file.closes = 0]_vars

\* the signal has fired, the file is still open, and an invocation begun
\* after the signal has written its record
C24_Witness ==
    \E t \in Threads :
        /\ file.done
        /\ file.after[t]
        /\ file.wrote[t]
        /\ file.pc[t] = "count"
        /\ file.closes = 0
        /\ file.holder = "select"

-----------------------------------------------------------------------------
(* C25 *)

\* C25 as stated: a tick syncs the file only if a write completed since the
\* previous sync (here: pnt(fp) returned or countwrt.Add ran after the last
\* fp.Sync); a tick with no write since then, or after the close, does not.
C25_SyncOnlyAfterWrite ==
    [][FileSynced => file.touched /\ file.closes = 0]_vars

\* what holds: every sync uses up at least one counted write, and none
\* happens after the close
C25_SyncsWithinCount ==
    /\ file.syncs <= file.countwrt
    /\ file.holder = "sync" =>
            /\ file.closes = 0
            /\ file.lastflush = file.c
            /\ file.c > 0

\* the second sync is due although nothing was written or counted since
\* the first: the first flush read the counter, a whole write followed, and
\* then came its fp.Sync
C25_Witness ==
    /\ file.holder = "sync"
    /\ file.syncs = 1
    /\ ~file.touched
    /\ file.synced = file.written
    /\ \A t \in Threads : file.pc[t] = "idle"

-----------------------------------------------------------------------------
(* C26 *)

\* C26 as stated: on cancellation the file is flushed and then closed: at
\* fp.Close() every record written to the file has been covered by an
\* fp.Sync.
C26_FlushedBeforeClose ==
    [][file'.closes # file.closes => file.synced = file.written]_vars

\* the file is closed with a record in it that no fp.Sync has covered, and
\* the goroutine has stopped
C26_Witness ==
    /\ file.closes = 1
    /\ file.holder = "stopped"
    /\ file.written > file.synced
    /\ \A t \in Threads : file.pc[t] = "idle"

-----------------------------------------------------------------------------
(* C27 *)

\* C27 as stated: when a PanicLog or FatalLog call on a handler with a
\* wrapped handler is over, the handler's own panic or fatal action has been
\* called, whether or not the wrapped handler's regular path failed.
C27_SelfActionIndependent ==
    \A t \in Threads :
        LET c == threads[t].call
        IN  (/\ Over(t)
             /\ c.target = "handler"
             /\ c.op \in {"PanicLog", "FatalLog"}
             /\ handlers[c.h].kind = "func"
             /\ handlers[c.h].Wrapper # NoHandler)
                => CountOf(EventsOf(t), c.h, {"panic", "fatal", "failed"}) = 1

\* what holds: the own action has been called in every such call whose
\* wrapped handler returned
C27_SelfActionUnlessFailed ==
    \A t \in Threads :
        LET c == threads[t].call
        IN  (/\ Over(t)
             /\ c.target = "handler"
             /\ c.op \in {"PanicLog", "FatalLog"}
             /\ handlers[c.h].kind = "func"
             /\ CountOf(EventsOf(t), 4, {"failed"}) = 0)
                => CountOf(EventsOf(t), c.h, {"panic", "fatal", "failed"}) = 1

\* PanicLog on the wrapping handler: the wrapped function panicked, the
\* call is over with the lock released, and the handler's PanicLogFunc was
\* never called
C27_Witness ==
    LET c == threads[MainThread].call
    IN  /\ threads[MainThread].pc = "panicked"
        /\ c.h = 2
        /\ c.op = "PanicLog"
        /\ handlers[2].Lock = 2
        /\ ~lockHeld[2]
        /\ CountOf(EventsOf(MainThread), 4, {"failed"}) = 1
        /\ CountOf(EventsOf(MainThread), 2, OwnKinds \cup FinKinds) = 0

-----------------------------------------------------------------------------
(* C28 *)

\* the event a step adds
Added == events'[Len(events')]

\* the last event before the step is of NativeLogHandler, of the given kind,
\* and went to os.Stderr
WroteStderrLast(kind) ==
    /\ events # <<>>
    /\ events[Len(events)].h = NativeId
    /\ events[Len(events)].kind = kind
    /\ events[Len(events)].out = "os.Stderr"
    /\ Written(events[Len(events)].pnt) # ""

C28_Step ==
    (Len(events') = Len(events) + 1 /\ Added.h = NativeId) =>
        /\ Added.kind = "regular" => Added.out = "os.Stdout"
        /\ Added.kind \in {"panic", "fatal"} => Added.out = "os.Stderr"
        /\ Added.kind = "raise" => WroteStderrLast("panic")
        /\ Added.kind \in {"terminate", "exit"} => WroteStderrLast("fatal")
        /\ Added.kind = "terminate" => sysTerminate = "hook"
        /\ Added.kind = "exit" => sysTerminate = "exit"
        /\ Added.kind \in OwnKinds \cup FinKinds

\* C28: NativeLogHandler writes a regular record to standard output; it
\* writes a panic record to standard error and raises the panic only after
\* that; it writes a fatal record to standard error and only then calls the
\* termination function, the one sysTerminate holds at the time of the call.
C28_NativeHandler == [][C28_Step]_vars

\* sysTerminate was replaced after NativeLogHandler was made; FatalLog wrote
\* the record to standard error and then called the replacement
C28_Witness ==
    LET ev == EventsOf(MainThread)
    IN  /\ sysTerminate = "hook"
        /\ threads[MainThread].call.op = "FatalLog"
        /\ threads[MainThread].pc = "idle"
        /\ Len(ev) = 2
        /\ ev[1].kind = "fatal" /\ ev[1].out = "os.Stderr"
        /\ ev[2].kind = "terminate"
        /\ exited = "no"

\* PanicLog wrote the record to standard error and then raised the panic
C28_WitnessPanic ==
    LET ev == EventsOf(MainThread)
    IN  /\ threads[MainThread].pc = "panicked"
        /\ Len(ev) = 2
        /\ ev[1].kind = "panic" /\ ev[1].out = "os.Stderr"
        /\ ev[2].kind = "raise"

\* RegularLog wrote the record to standard output
C28_WitnessRegular ==
    LET ev == EventsOf(MainThread)
    IN  /\ threads[MainThread].pc = "idle"
        /\ threads[MainThread].call.op = "RegularLog"
        /\ Len(ev) = 1
        /\ ev[1].kind = "regular" /\ ev[1].out = "os.Stdout"

-----------------------------------------------------------------------------
(* C29 *)

\* C29: when a call of a method of a TinyLogHandlerFunc is over, the function
\* has been called exactly once: with the level given for RegularLog and
\* RegularWriter, with PANIC for PanicLog and FATAL for FatalLog, and with
\* the writer given (RegularWriter) or one that writes the header and then
\* the body; the call has returned, with no panic and the process running.
C29_TinyHandler ==
    \A t \in Threads :
        LET c == threads[t].call
            ev == EventsOf(t)
        IN  (/\ Over(t)
             /\ c.target = "handler"
             /\ handlers[c.h].kind = "tiny")
                => /\ Len(ev) = 1
                   /\ ev[1].h = c.h
                   /\ ev[1].kind = "tiny"
                   /\ c.op \in {"RegularLog", "RegularWriter"}
                        => ev[1].level = c.level /\ c.level \in UserLevels
                   /\ c.op = "PanicLog" => ev[1].level = PANIC
                   /\ c.op = "FatalLog" => ev[1].level = FATAL
                   /\ c.op = "RegularWriter" => ev[1].pnt = CallerPnt(c.level)
                   /\ c.op # "RegularWriter" =>
                        Written(ev[1].pnt)
                            = RenderHeader(c.header) \o Sprintln(c.message)
                   /\ threads[t].pc = "idle"
                   /\ exited = "no"

\* FatalLog on the TinyLogHandlerFunc is over: the function was called once
\* with FATAL and the header and body, and the caller goes on
C29_Witness ==
    LET c == threads[MainThread].call
        ev == EventsOf(MainThread)
    IN  /\ c.target = "handler"
        /\ c.h = 4
        /\ c.op = "FatalLog"
        /\ threads[MainThread].pc = "idle"
        /\ Len(ev) = 1
        /\ ev[1].level = FATAL
        /\ Written(ev[1].pnt) = "12:30 [FATAL], direct - m 1\n"

-----------------------------------------------------------------------------
(* C30 *)

\* the own action the method of the call runs is absent from the handler
OwnActionAbsent(c) ==
    CASE c.op = "PanicLog" -> handlers[c.h].PanicLogFunc = "absent"
      [] c.op = "FatalLog" -> handlers[c.h].FatalLogFunc = "absent"
      [] OTHER -> ~handlers[c.h].RegularLogFunc

\* the finalizer of the call, were it to run, ends the call or the process
NativeFinalizer(c) ==
    \/ c.op = "PanicLog" /\ handlers[c.h].PanicLogFunc = "native"
    \/ c.op = "FatalLog" /\ handlers[c.h].FatalLogFunc = "native"

\* every handler wrapped by h that has a regular effect has had it once
DelegatedOnce(t, h) ==
    \A b \in Below(h) :
        CountOf(EventsOf(t), b, RegularKinds) = IF HasRegular(b) THEN 1 ELSE 0

\* C30: a call of any of the four methods of a LogHandlerFunc comes to an
\* end whatever fields are absent, and returns unless a native finalizer
\* ran; without a Wrapper nothing is delegated and the own action runs as
\* ever; without the own action nothing of the handler's own happens and
\* the Wrappers still get the record; without the panic or fatal action no
\* finalizer runs.
C30_AbsentMeansNoOp ==
    \A t \in Threads :
        LET c == threads[t].call
            ev == EventsOf(t)
            hr == handlers[c.h]
        IN  (c.target = "handler" /\ hr.kind = "func") =>
                /\ (threads[t].pc = "handler" /\ exited = "no")
                        => ENABLED HandlerStep(t)
                /\ Over(t) =>
                    /\ ~NativeFinalizer(c) =>
                            threads[t].pc = "idle" /\ exited = "no"
                    /\ hr.Wrapper = NoHandler =>
                            /\ \A k \in DOMAIN ev : ev[k].h = c.h
                            /\ CountOf(ev, c.h, OwnKinds)
                                = IF OwnActionAbsent(c) THEN 0 ELSE 1
                    /\ OwnActionAbsent(c) =>
                            /\ CountOf(ev, c.h, OwnKinds) = 0
                            /\ DelegatedOnce(t, c.h)
                    /\ (c.op \in {"PanicLog", "FatalLog"}
                            /\ OwnActionAbsent(c)) =>
                            CountOf(ev, c.h, FinKinds) = 0

\* PanicLog on a LogHandlerFunc with no Lock, no Converter and no
\* PanicLogFunc is over: it returned, the Wrappers got the record, and
\* nothing else happened
C30_Witness ==
    LET c == threads[MainThread].call
        ev == EventsOf(MainThread)
    IN  /\ c.target = "handler"
        /\ c.h = 2
        /\ c.op = "PanicLog"
        /\ handlers[2].Lock = NoLock
        /\ ~handlers[2].Converter
        /\ handlers[2].PanicLogFunc = "absent"
        /\ handlers[2].Wrapper = 3
        /\ handlers[3].Wrapper = 4
        /\ threads[MainThread].pc = "idle"
        /\ Len(ev) = 2
        /\ ev[1].h = 4 /\ ev[1].kind = "tiny" /\ ev[1].level = PANIC
        /\ ev[2].h = 3 /\ ev[2].kind = "regular"

\* RegularLog on a LogHandlerFunc with nothing set at all returns with no
\* effect
C30_WitnessEmpty ==
    LET c == threads[MainThread].call
    IN  /\ c.target = "handler"
        /\ c.h = 2
        /\ c.op = "RegularLog"
        /\ handlers[2] = LogHandlerFunc(NoLock, FALSE, FALSE, "absent",
                                        "absent", NoHandler)
        /\ threads[MainThread].pc = "idle"
        /\ EventsOf(MainThread) = <<>>

-----------------------------------------------------------------------------
(* C31 *)

\* the call of thread t was made through a callable of a lazy method and has
\* returned
LazyCallOver(t) ==
    /\ threads[t].call.style = "lazy"
    /\ threads[t].call.h # NoHandler
    /\ threads[t].pc = "idle"

C31_Inv ==
    \A t \in Threads :
        LET c == threads[t].call
            z == threads[t].lazy
            ev == EventsOf(t)
        IN  /\ (z # NoLazy /\ threads[t].pc = "idle" /\ exited = "no")
                    => ENABLED CallP(t)
            /\ LazyCallOver(t) =>
                    /\ z = [target |-> c.target, id |-> c.id,
                            level |-> c.level]
                    /\ Len(ev) = 1
                    /\ ev[1].h = c.h
                    /\ ev[1].kind \in RegularKinds
                    /\ ev[1].level = z.level

C31_Step ==
    \A t \in Threads :
        LET c == threads[t].call
        IN  (/\ c.style = "lazy"
             /\ threads[t].pc = "disp"
             /\ threads'[t].pc # "disp")
                => /\ threads'[t].pc = "handler"
                   /\ threads'[t].call.h
                        = loggers[ParentOf(c.target, c.id)].logHandler

\* C31: a callable got from a lazy method while the level was enabled can be
\* called whatever the threshold has become, and each call of it emits one
\* record at its level through the handler the logger has when the call
\* reaches it.
C31_LazyCallableKeepsLevel == []C31_Inv /\ [][C31_Step]_vars

\* the callable of InfP was got at threshold INFO with the tiny handler set;
\* the threshold is ERROR now, the handler is NativeLogHandler, and the call
\* of the callable has written one INFO record through it
C31_Witness ==
    LET c == threads[MainThread].call
        ev == EventsOf(MainThread)
    IN  /\ LazyCallOver(MainThread)
        /\ loggers[1].level = ERROR
        /\ c.level = INFO
        /\ c.target = "trace"
        /\ c.h = NativeId
        /\ Len(ev) = 1
        /\ ev[1].h = NativeId /\ ev[1].kind = "regular" /\ ev[1].level = INFO
        /\ ev[1].pnt.header.trace = "<TR:uuid-1>"

-----------------------------------------------------------------------------
(* C32 *)

\* the levels whose headers carry call-site info under formatter f
CallSiteLevels(f) ==
    {level \in Levels : FmtHeader(f, level, NoTid).stack = CallSite}

\* C32 as stated, for SetTimeFormat: a step that changes a logger's time
\* format leaves the levels whose headers carry call-site info, the
\* threshold, the name prefix and the handler as they were.
C32_TimeFormatOnly ==
    [][\A i \in DOMAIN loggers :
        (i \in DOMAIN loggers' /\ loggers'[i].timefmt # loggers[i].timefmt)
            => /\ CallSiteLevels(loggers'[i].fmtHeader)
                    = CallSiteLevels(loggers[i].fmtHeader)
               /\ loggers'[i].level = loggers[i].level
               /\ loggers'[i].prefix = loggers[i].prefix
               /\ loggers'[i].fmtHeader.prefix = loggers[i].fmtHeader.prefix
               /\ loggers'[i].logHandler = loggers[i].logHandler]_vars

\* what holds of SetTimeFormat: everything but the call-site levels, which
\* become those of the stored call-trace level
C32_TimeFormatButCallSite ==
    [][\A i \in DOMAIN loggers :
        (i \in DOMAIN loggers' /\ loggers'[i].timefmt # loggers[i].timefmt)
            => /\ loggers'[i].fmtHeader.levelcalltrace = loggers[i].levelct
               /\ loggers'[i].fmtHeader.timefmt = loggers'[i].timefmt
               /\ loggers'[i].levelct = loggers[i].levelct
               /\ loggers'[i].level = loggers[i].level
               /\ loggers'[i].prefix = loggers[i].prefix
               /\ loggers'[i].fmtHeader.prefix = loggers[i].fmtHeader.prefix
               /\ loggers'[i].logHandler = loggers[i].logHandler]_vars

\* what holds of SetCallTraceLevel: a step that changes the stored call-trace
\* level leaves the time format, the prefix, the threshold and the handler
C32_CallTraceLevelOnly ==
    [][\A i \in DOMAIN loggers :
        (i \in DOMAIN loggers' /\ loggers'[i].levelct # loggers[i].levelct)
            => /\ loggers'[i].timefmt = loggers[i].timefmt
               /\ loggers'[i].fmtHeader.timefmt = loggers[i].fmtHeader.timefmt
               /\ loggers'[i].fmtHeader.levelcalltrace = loggers'[i].levelct
               /\ loggers'[i].level = loggers[i].level
               /\ loggers'[i].prefix = loggers[i].prefix
               /\ loggers'[i].fmtHeader.prefix = loggers[i].fmtHeader.prefix
               /\ loggers'[i].logHandler = loggers[i].logHandler]_vars


-----------------------------------------------------------------------------
(* C33 *)

\* C33: in a RegularLog, PanicLog or FatalLog call on a LogHandlerFunc the
\* message is formatted once, by the handler called: through its Converter
\* when it has one (called once, with the default formatter's writer), and
\* the writer that results, header then body, is the one every regular
\* action below and the handler's own action receive; no Converter of a
\* wrapped handler is called.
C33_FormattedOnceByOutermost ==
    \A t \in Threads :
        LET c == threads[t].call
            ev == EventsOf(t)
            pnt == [header |-> c.header, sp |-> Sprintln(c.message),
                    by |-> c.h]
        IN  (/\ c.target = "handler"
             /\ handlers[c.h].kind = "func"
             /\ c.op \in {"RegularLog", "PanicLog", "FatalLog"})
                => /\ \A k \in DOMAIN ev :
                        /\ ev[k].kind \in OwnKinds \cup {"conv"}
                                => ev[k].pnt = pnt
                        /\ ev[k].kind = "conv" => /\ ev[k].h = c.h
                                                  /\ k = 1
                   /\ Over(t) =>
                        /\ CountOf(ev, c.h, {"conv"})
                                = IF handlers[c.h].Converter THEN 1 ELSE 0
                        /\ DelegatedOnce(t, c.h)
                        /\ ~OwnActionAbsent(c)
                                => CountOf(ev, c.h, OwnKinds) = 1

\* RegularLog on a LogHandlerFunc with a Converter that wraps another with a
\* Converter: one Converter call, and the three actions got the same writer
C33_Witness ==
    LET c == threads[MainThread].call
        ev == EventsOf(MainThread)
    IN  /\ c.target = "handler"
        /\ c.h = 2
        /\ c.op = "RegularLog"
        /\ handlers[2].Converter
        /\ handlers[3].Converter
        /\ threads[MainThread].pc = "idle"
        /\ Len(ev) = 4
        /\ ev[1].kind = "conv" /\ ev[1].h = 2
        /\ ev[2].kind = "tiny" /\ ev[2].h = 4
        /\ ev[3].kind = "regular" /\ ev[3].h = 3
        /\ ev[4].kind = "regular" /\ ev[4].h = 2
        /\ ev[2].pnt = ev[1].pnt /\ ev[3].pnt = ev[1].pnt
        /\ ev[4].pnt = ev[1].pnt
        /\ Written(ev[1].pnt) = "12:30 [INFO], direct - m 1\n"

-----------------------------------------------------------------------------
(* C34 *)

\* the level the handlers below get in the call: PANIC in PanicLog, FATAL in
\* FatalLog, the level given in RegularLog and RegularWriter
TagOf(c) ==
    CASE c.op = "PanicLog" -> PANIC
      [] c.op = "FatalLog" -> FATAL
      [] OTHER -> c.level

\* C34: in a call on a chain of handlers every regular action, of the
\* handler called and of each handler it wraps at each depth, is called with
\* the same level: PANIC in a PanicLog call, FATAL in a FatalLog call, the
\* level given in a regular call; and every wrapped handler that has a
\* regular action gets it.
C34_LevelTagUnchanged ==
    \A t \in Threads :
        LET c == threads[t].call
            ev == EventsOf(t)
        IN  (c.target = "handler" /\ handlers[c.h].kind = "func") =>
                /\ c.op \in {"RegularLog", "RegularWriter"}
                        => c.level \in UserLevels
                /\ \A k \in DOMAIN ev :
                        ev[k].kind \in RegularKinds =>
                            /\ ev[k].level = TagOf(c)
                            /\ ev[k].h \in Range(ChainOf(c.h))
                /\ Over(t) => DelegatedOnce(t, c.h)

\* FatalLog on the first handler of a chain of three: the second and the
\* third handler had their regular action called with FATAL
C34_Witness ==
    LET c == threads[MainThread].call
        ev == EventsOf(MainThread)
    IN  /\ c.target = "handler"
        /\ c.h = 2
        /\ c.op = "FatalLog"
        /\ ChainOf(2) = <<2, 3, 4>>
        /\ Over(MainThread)
        /\ \E j, k \in DOMAIN ev :
                /\ ev[j].h = 4 /\ ev[j].kind = "tiny" /\ ev[j].level = FATAL
                /\ ev[k].h = 3 /\ ev[k].kind = "regular"
                /\ ev[k].level = FATAL

-----------------------------------------------------------------------------
(* C35 *)

\* no lock of a handler is held
NoLockHeld == \A k \in DOMAIN lockHeld : ~lockHeld[k]

\* thread t is in a method of a handler and not yet at its finalizer
InMethodBody(t) ==
    threads[t].pc = "handler" /\ Depth(t) > 0 /\ Top(t).pc # "fin"

\* whenever every thread is at a finalizer or out of its call, returned or
\* panicked, no lock is held
C35_Inv == (\A t \in Threads : ~InMethodBody(t)) => NoLockHeld

C35_Step ==
    (Len(events') = Len(events) + 1 /\ Added.kind \in FinKinds)
        => NoLockHeld /\ UNCHANGED lockHeld

\* C35: PanicLog and FatalLog have released the handler's lock when the
\* finalizer runs, so no lock is held while the panic is raised or the
\* termination function runs; and when a call of any of the four methods is
\* over, returned or left by a panic of a wrapped handler or of an action
\* function, every lock it took is released.
C35_LockReleasedOnEveryExit == []C35_Inv /\ [][C35_Step]_vars

\* PanicLog on a locked handler wrapping a locked handler whose wrapped
\* function panicked: the panic has left both methods, both locks are free,
\* and after the recovery the next call can be made
C35_Witness ==
    LET c == threads[MainThread].call
    IN  /\ c.h = 2
        /\ c.op = "PanicLog"
        /\ handlers[2].Lock = 2
        /\ handlers[2].Wrapper = 3
        /\ handlers[3].Lock = 3
        /\ threads[MainThread].pc = "idle"
        /\ CountOf(EventsOf(MainThread), 4, {"failed"}) = 1
        /\ NoLockHeld
        /\ ENABLED HandlerCall(MainThread, 2, "RegularLog", INFO)

\* the native panic finalizer has raised the panic of a locked handler, and
\* the lock is free
C35_WitnessRaise ==
    LET c == threads[MainThread].call
        ev == EventsOf(MainThread)
    IN  /\ c.h = 2
        /\ c.op = "PanicLog"
        /\ handlers[2].Lock = 2
        /\ threads[MainThread].pc = "panicked"
        /\ ev # <<>>
        /\ ev[Len(ev)].kind = "raise"
        /\ ~lockHeld[2]

\* the panic action of a locked handler panicked, and the lock is free
C35_WitnessAction ==
    LET c == threads[MainThread].call
    IN  /\ c.h = 2
        /\ handlers[2].Lock = 2
        /\ threads[MainThread].pc = "panicked"
        /\ CountOf(EventsOf(MainThread), 2, {"failed"}) = 1
        /\ ~lockHeld[2]

-----------------------------------------------------------------------------
(* C36 *)

\* C36: while the ticks keep coming and the goroutines run, every record
\* written to the file comes to be covered by an fp.Sync, unless the
\* context is cancelled first.
C36_WritesGetSynced ==
    \A n \in 1..MaxWrites :
        (file.written >= n) ~> (file.synced >= n \/ file.done)

\* two records were written by concurrent callers around a flush, the
\* context is not cancelled, and a second flush has covered both
C36_Witness ==
    /\ ~file.done
    /\ file.written = MaxWrites
    /\ file.synced = MaxWrites
    /\ file.syncs = 2
    /\ file.closes = 0

-----------------------------------------------------------------------------
(* C37 *)

\* the final func of the file holder goroutine is between fplock.Lock()
\* returning and fplock.Unlock()
Closing == file.holder \in {"close", "nil", "unlock"}

\* the caller is between fplock.RLock() returning and fplock.RUnlock()
InHandlerBody(t) == file.pc[t] \in {"write", "count", "runlock"}

\* flush is between fplock.RLock() returning and fplock.RUnlock()
InFlushBody == file.holder \in {"load", "sync", "runlock"}

C37_Inv ==
    /\ Closing => /\ file.readers = {}
                  /\ \A t \in Threads : ~InHandlerBody(t)
                  /\ ~InFlushBody
    /\ \A t \in Threads :
        file.pc[t] \in {"write", "count"}
            => file.fp = "open" /\ file.closes = 0 /\ ~Closing
    /\ file.holder = "sync" => file.fp = "open" /\ file.closes = 0

C37_Step ==
    (\E t \in Threads : InHandlerBody(t) /\ file'.pc[t] # "idle")
        => file'.fp = file.fp /\ file'.closes = file.closes

\* C37: the close never overlaps a write or a flush. While a handler
\* invocation is inside its write or a flush is syncing the close has not
\* started, during the close no write or flush runs, and through a whole
\* handler invocation the file is either open or closed.
C37_CloseNeverOverlaps == []C37_Inv /\ [][C37_Step]_vars

\* the close has been asked for while a caller is inside its write, and
\* waits
C37_Witness ==
    /\ file.holder = "wait"
    /\ \E t \in Threads : file.pc[t] = "write"

\* the close is in progress and a caller waits at fplock.RLock
C37_WitnessClosing ==
    /\ Closing
    /\ \E t \in Threads : file.pc[t] = "rlock"

-----------------------------------------------------------------------------
(* C38 *)

\* the handlers the wrappers made
Made == DOMAIN handlers \ HandlerIds

ActiveChain == ChainOf(loggers[1].logHandler)

\* at most one thread is between l.mtx.Lock() and l.mtx.Unlock()
C38_OneSetter ==
    \A t, u \in Threads :
        threads[t].pc \in MtxPcs /\ threads[u].pc \in MtxPcs => t = u

\* while the handler the logger was made with is at the bottom of the
\* active chain, every handler a wrapper made is in the chain
C38_NoneLost ==
    (ActiveChain # <<>> /\ ActiveChain[Len(ActiveChain)] = 4)
        => Made \subseteq {ActiveChain[k] : k \in 1..Len(ActiveChain)}

\* a handler made by a wrapper and stored wraps the handler it replaces
C38_Step ==
    LET new == loggers'[1].logHandler
    IN  (new \in DOMAIN handlers' /\ new \notin DOMAIN handlers)
            => handlers'[new].Wrapper = loggers[1].logHandler

\* C38: WrapLogHandler reads, wraps and stores the active handler as one
\* atomic step with respect to the other setters. Concurrent calls with
\* wrappers that wrap their argument leave a chain that holds every wrapper's
\* handler, each handler stored wraps the handler it replaced, and no
\* SetLogHandler comes between the read and the store of a WrapLogHandler.
C38_WrapIsAtomic == [](C38_OneSetter /\ C38_NoneLost) /\ [][C38_Step]_vars

\* two threads have wrapped the handler h of the logger with different
\* wrappers, and the active handler is one's handler around the other's
\* around h
C38_Witness ==
    /\ \A t \in Threads : threads[t].pc = "idle"
    /\ Len(ActiveChain) = 3
    /\ ActiveChain[3] = 4
    /\ handlers[ActiveChain[1]].Converter # handlers[ActiveChain[2]].Converter
    /\ {ActiveChain[1], ActiveChain[2]} = Made

\* a SetLogHandler came before a WrapLogHandler that was called while it ran
C38_WitnessSet ==
    /\ \E t \in Threads : threads[t].pc = "unlock"
                          /\ threads[t].set.api = "SetLogHandler"
    /\ \E t \in Threads : threads[t].pc = "mtx"
                          /\ threads[t].set.api = "WrapLogHandler"
    /\ loggers[1].logHandler = 3


-----------------------------------------------------------------------------
(* C39 *)

\* the locks of the handlers reached from handler h, one entry per handler
\* that has a lock
ChainLocks(h) ==
    LET c == ChainOf(h)
    IN  {<<k, handlers[c[k]].Lock>> :
            k \in {k \in DOMAIN c : handlers[c[k]].Lock # NoLock}}

\* every handler with a lock reached from h has a lock of its own
DistinctLocks(h) ==
    \A a, b \in ChainLocks(h) : a[2] = b[2] => a = b

\* thread t is inside a call of a handler's method
InCall(t) == threads[t].pc = "handler"

C39_Step ==
    \A t \in Threads :
        (InCall(t) /\ ~DistinctLocks(threads[t].call.h)) => InCall(t)'

C39_WitnessShared ==
    \E t \in Threads :
        /\ InCall(t) /\ threads[t].call.h = 2 /\ Depth(t) = 3
        /\ Top(t).h = NativeId /\ Top(t).pc = "enter"
        /\ handlers[2].Lock = handlers[NativeId].Lock

====
